---- MODULE Spec2Model ----
(***************************************************************************)
(* Model of notecalc-lib/src/editor.rs: the fixed-stride text buffer, the  *)
(* selection value type and the handle_input state machine.                *)
(*                                                                         *)
(* Rows and columns are 0-based as in the source; a TLA+ sequence index is *)
(* the source index plus one.  The canvas is the flat Vec<char> of the     *)
(* source, cells beyond a row's length included, because several handlers  *)
(* read or copy them.  A Rust panic (index out of range, bad copy_within   *)
(* range, arithmetic overflow with overflow checks on) ends the run: the   *)
(* editor record carries st = "panic" and the action sets status.          *)
(***************************************************************************)
EXTENDS Integers, Sequences, FiniteSets, TLC

\* ---- bounds of the model ------------------------------------------------
MaxLineLen == 2
MaxRows == 2
MaxTextLen == 2
MaxClick == 2
\* calls followed after the editor has first left its contract (a row longer
\* than max_line_len or a selection endpoint outside the buffer)
MaxBrokenCalls == 1

\* ---- characters ----------------------------------------------------------
\* `0 as char`, the filler written by push_line / insert_line_at.
NUL == "NUL"
\* characters typed through InputKey::Char in the model
InputChars == {"x"}
\* characters a pasted text is made of
TextChars == {"x", "\n", "\r"}
\* the letters a prepared buffer is filled with, one per cell
Letters == <<"a", "b", "c", "d", "f", "g", "h", "i", "j", "k", "l", "m", "n", "o", "p", "q">>

\* char::is_alphanumeric, restricted to the characters the model uses
is_alphanumeric(c) ==
    c \in {Letters[i] : i \in 1..Len(Letters)}
            \cup {"e", "r", "s", "t", "u", "v", "w", "x", "y", "z", "0", "1", "2"}
\* char::is_ascii_whitespace: U+0020, U+0009, U+000A, U+000C, U+000D
is_ascii_whitespace(c) == c \in {" ", "\t", "\n", "\f", "\r"}

IsWordChar(c) == is_alphanumeric(c) \/ c = "_"
IsQuoteChar(c) == c = "\""
IsSymbolChar(c) == ~(IsWordChar(c) \/ IsQuoteChar(c) \/ is_ascii_whitespace(c))

\* ---- Pos and Selection -----------------------------------------------------
from_row_column(row_index, column_index) == [row |-> row_index, column |-> column_index]

with_column(pos, col) == [pos EXCEPT !.column = col]

\* Option<Pos>: <<>> is None, <<p>> is Some(p)
None == <<>>
Some(p) == <<p>>

from_pos(pos) == [start |-> pos, end |-> None]

single(row_index, column_index) == [start |-> from_row_column(row_index, column_index), end |-> None]

\* range without the collapse of equal endpoints
range_keeps_end(start, end) == [start |-> start, end |-> Some(end)]

range(start, end) == [start |-> start, end |-> IF start = end THEN None ELSE Some(end)]

is_range(sel) == sel.end # None

\* the literal 1024 of get_first / get_second
RANK_STRIDE == 1024

rank_index(pos) == pos.row * RANK_STRIDE + pos.column

get_first(sel) ==
    IF sel.end # None
    THEN IF rank_index(sel.end[1]) < rank_index(sel.start) THEN sel.end[1] ELSE sel.start
    ELSE sel.start

get_second(sel) ==
    IF sel.end # None
    THEN IF rank_index(sel.end[1]) > rank_index(sel.start) THEN sel.end[1] ELSE sel.start
    ELSE sel.start

\* extend as it would be if it kept the range's far end and moved the anchor
extend_moves_anchor(sel, new_end) ==
    IF sel.start = new_end
    THEN single(new_end.row, new_end.column)
    ELSE range(new_end, IF sel.end # None THEN sel.end[1] ELSE sel.start)

extend(sel, new_end) ==
    IF sel.start = new_end
    THEN single(new_end.row, new_end.column)
    ELSE range(sel.start, new_end)

get_cursor_pos(sel) == IF sel.end # None THEN sel.end[1] ELSE sel.start

\* ---- slices ------------------------------------------------------------------
\* [T]::copy_within(from..to, dst) panics unless this holds
copy_within_ok(s, from, to, dst) ==
    from <= to /\ to <= Len(s) /\ dst + (to - from) <= Len(s)

copy_within(s, from, to, dst) ==
    [i \in 1..Len(s) |->
        IF i - 1 >= dst /\ i - 1 < dst + (to - from)
        THEN s[from + (i - 1 - dst) + 1]
        ELSE s[i]]

\* std::iter::repeat(0 as char).take(n)
Zeros(n) == [i \in 1..n |-> NUL]

\* Vec::insert / Vec::remove on line_lens, 0-based index
SeqInsert(s, at, v) == SubSeq(s, 1, at) \o <<v>> \o SubSeq(s, at + 1, Len(s))
SeqRemove(s, at) == SubSeq(s, 1, at) \o SubSeq(s, at + 2, Len(s))

\* ---- the Editor as a value --------------------------------------------------
\* st: "ok" or "panic"; ret: the value returned by the last helper call;
\* capfail: some insert_char / merge_with_next_row returned false.
Panic(e) == [e EXCEPT !.st = "panic"]

new(max_len) ==
    [ canvas |-> Zeros(max_len),
      line_lens |-> <<0>>,
      max_line_len |-> max_len,
      selection |-> single(0, 0),
      last_column_index |-> 0,
      st |-> "ok",
      ret |-> FALSE,
      capfail |-> FALSE ]

push_line(e) ==
    [e EXCEPT !.canvas = @ \o Zeros(e.max_line_len), !.line_lens = Append(@, 0)]

insert_line_at(e, at) ==
    IF e.st # "ok" THEN e
    ELSE LET start_pos == e.max_line_len * at IN
         IF start_pos > Len(e.canvas) \/ at > Len(e.line_lens) THEN Panic(e)
         ELSE [e EXCEPT
                 !.canvas = SubSeq(@, 1, start_pos) \o Zeros(e.max_line_len)
                            \o SubSeq(@, start_pos + 1, Len(@)),
                 !.line_lens = SeqInsert(@, at, 0)]

remove_line_at(e, at) ==
    IF e.st # "ok" THEN e
    ELSE LET from == e.max_line_len * at
             to == from + e.max_line_len IN
         IF to > Len(e.canvas) \/ at >= Len(e.line_lens) THEN Panic(e)
         ELSE [e EXCEPT
                 !.canvas = SubSeq(@, 1, from) \o SubSeq(@, to + 1, Len(@)),
                 !.line_lens = SeqRemove(@, at)]

line_count(e) == Len(e.line_lens)

\* only used where row_i < line_count(e) has been established
line_len(e, row_i) == e.line_lens[row_i + 1]

get_char_pos(e, row_index, column_index) == row_index * e.max_line_len + column_index

\* get_line_chars panics unless the row exists
get_line_chars_ok(e, row_index) ==
    row_index * e.max_line_len + e.max_line_len <= Len(e.canvas)

get_line_chars(e, row_index) ==
    SubSeq(e.canvas, row_index * e.max_line_len + 1,
           row_index * e.max_line_len + e.max_line_len)

RECURSIVE push_lines(_, _)
push_lines(e, n) == IF n <= 0 THEN e ELSE push_lines(push_line(e), n - 1)

set_char(e, row_index, column_index, ch) ==
    IF e.st # "ok" THEN e
    ELSE LET e1 == push_lines(e, row_index + 1 - line_count(e))
             char_pos == get_char_pos(e1, row_index, column_index) IN
         IF char_pos >= Len(e1.canvas) THEN Panic(e1)
         ELSE [e1 EXCEPT !.canvas[char_pos + 1] = ch]

insert_char(e, row_index, column_index, ch) ==
    IF e.st # "ok" THEN e
    ELSE IF row_index >= line_count(e) THEN Panic(e)
    ELSE IF line_len(e, row_index) = e.max_line_len
         THEN [e EXCEPT !.ret = FALSE, !.capfail = TRUE]
    ELSE LET from == get_char_pos(e, row_index, column_index)
             to == get_char_pos(e, row_index, line_len(e, row_index)) IN
         IF ~copy_within_ok(e.canvas, from, to, from + 1) THEN Panic(e)
         ELSE [e EXCEPT
                 !.canvas = [copy_within(@, from, to, from + 1) EXCEPT ![from + 1] = ch],
                 !.line_lens[row_index + 1] = @ + 1,
                 !.ret = TRUE]

remove_char(e, row_index, column_index) ==
    IF e.st # "ok" THEN e
    ELSE IF row_index >= line_count(e) THEN Panic(e)
    ELSE LET from == get_char_pos(e, row_index, column_index)
             to == get_char_pos(e, row_index, line_len(e, row_index)) IN
         IF ~copy_within_ok(e.canvas, from + 1, to, from) THEN Panic(e)
         ELSE [e EXCEPT
                 !.canvas = copy_within(@, from + 1, to, from),
                 !.line_lens[row_index + 1] = @ - 1,
                 !.ret = TRUE]

split_line(e, row_index, split_at) ==
    IF e.st # "ok" THEN e
    ELSE LET e1 == insert_line_at(e, row_index + 1) IN
         IF e1.st # "ok" THEN e1
         ELSE IF row_index >= line_count(e1) THEN Panic(e1)
         ELSE LET new_line_pos == get_char_pos(e1, row_index + 1, 0)
                  from == get_char_pos(e1, row_index, split_at)
                  to == get_char_pos(e1, row_index, line_len(e1, row_index)) IN
              IF ~copy_within_ok(e1.canvas, from, to, new_line_pos) THEN Panic(e1)
              ELSE [e1 EXCEPT
                      !.canvas = copy_within(@, from, to, new_line_pos),
                      !.line_lens = [@ EXCEPT ![row_index + 2] = to - from,
                                              ![row_index + 1] = split_at]]

\* merge_with_next_row removing the row it merged into as well
merge_with_next_row_drops_both(e, row_index, first_row_col, second_row_col) ==
    IF e.st # "ok" THEN e
    ELSE IF row_index + 1 >= line_count(e) THEN Panic(e)
    ELSE IF line_len(e, row_index) + line_len(e, row_index + 1) > e.max_line_len
         THEN [e EXCEPT !.ret = FALSE, !.capfail = TRUE]
    ELSE LET dst == get_char_pos(e, row_index, first_row_col)
             src_from == get_char_pos(e, row_index + 1, second_row_col)
             src_to == get_char_pos(e, row_index + 1, line_len(e, row_index + 1)) IN
         IF ~copy_within_ok(e.canvas, src_from, src_to, dst) THEN Panic(e)
         ELSE LET e1 == [e EXCEPT
                           !.canvas = copy_within(@, src_from, src_to, dst),
                           !.line_lens[row_index + 1] = first_row_col + (src_to - src_from)]
                  e2 == remove_line_at(remove_line_at(e1, row_index + 1), row_index) IN
              IF e2.st # "ok" THEN e2 ELSE [e2 EXCEPT !.ret = TRUE]

merge_with_next_row(e, row_index, first_row_col, second_row_col) ==
    IF e.st # "ok" THEN e
    ELSE IF row_index + 1 >= line_count(e) THEN Panic(e)
    ELSE IF line_len(e, row_index) + line_len(e, row_index + 1) > e.max_line_len
         THEN [e EXCEPT !.ret = FALSE, !.capfail = TRUE]
    ELSE LET dst == get_char_pos(e, row_index, first_row_col)
             src_from == get_char_pos(e, row_index + 1, second_row_col)
             src_to == get_char_pos(e, row_index + 1, line_len(e, row_index + 1)) IN
         IF ~copy_within_ok(e.canvas, src_from, src_to, dst) THEN Panic(e)
         ELSE LET e1 == [e EXCEPT
                           !.canvas = copy_within(@, src_from, src_to, dst),
                           !.line_lens[row_index + 1] = first_row_col + (src_to - src_from)]
                  e2 == remove_line_at(e1, row_index + 1) IN
              IF e2.st # "ok" THEN e2 ELSE [e2 EXCEPT !.ret = TRUE]

\* remove_selection always returns true; the result of its merge is dropped.
\* st = "overflow" marks `line_lens[first.row] -= selected_char_count` going
\* below zero: a panic with overflow checks on, a wrapped usize without them.
RECURSIVE remove_lines(_, _, _)
remove_lines(e, at, n) ==
    IF n <= 0 \/ e.st # "ok" THEN e ELSE remove_lines(remove_line_at(e, at), at, n - 1)

remove_selection(e, first, second) ==
    IF e.st # "ok" THEN e
    ELSE IF second.row > first.row
    THEN LET e1 == remove_lines(e, first.row + 1, second.row - first.row - 1)
             e2 == merge_with_next_row(e1, first.row, first.column, second.column) IN
         IF e2.st # "ok" THEN e2 ELSE [e2 EXCEPT !.ret = TRUE]
    ELSE IF ~get_line_chars_ok(e, first.row) THEN Panic(e)
    ELSE LET base == first.row * e.max_line_len
             line == get_line_chars(e, first.row) IN
         IF ~copy_within_ok(line, second.column, Len(line), first.column) THEN Panic(e)
         ELSE LET selected_char_count == second.column - first.column
                  moved == copy_within(line, second.column, Len(line), first.column) IN
              IF line_len(e, first.row) < selected_char_count
              THEN [e EXCEPT !.st = "overflow"]
              ELSE [e EXCEPT
                      !.canvas = SubSeq(@, 1, base) \o moved
                                 \o SubSeq(@, base + e.max_line_len + 1, Len(@)),
                      !.line_lens[first.row + 1] = @ - selected_char_count,
                      !.ret = TRUE]

\* ---- word jumps ----------------------------------------------------------------
IgnoreWhitespaces == "IgnoreWhitespaces"
ConsiderWhitespaces == "ConsiderWhitespaces"
BlockOnWhitespace == "BlockOnWhitespace"
JumpModes == {IgnoreWhitespaces, ConsiderWhitespaces, BlockOnWhitespace}

\* the result of a jump whose scan indexes the row slice out of range
JumpPanic == -1

InClass(c, class) ==
    CASE class = "word" -> IsWordChar(c)
      [] class = "symbol" -> IsSymbolChar(c)
      [] class = "space" -> is_ascii_whitespace(c)

\* the inner `while col > 0 && <class>(line[col - 1])` loops
RECURSIVE run_backward(_, _, _)
run_backward(line, col, class) ==
    IF col > 0
    THEN IF col - 1 >= Len(line) THEN JumpPanic
         ELSE IF InClass(line[col], class) THEN run_backward(line, col - 1, class)
         ELSE col
    ELSE col

RECURSIVE scan_backward(_, _, _)
scan_backward(line, col, mode) ==
    IF col > 0
    THEN IF col - 1 >= Len(line) THEN JumpPanic
         ELSE IF IsWordChar(line[col]) THEN run_backward(line, col - 1, "word")
         ELSE IF IsQuoteChar(line[col]) THEN col - 1
         ELSE IF ~is_ascii_whitespace(line[col]) THEN run_backward(line, col - 1, "symbol")
         ELSE CASE mode = IgnoreWhitespaces -> scan_backward(line, col - 1, mode)
                [] mode = ConsiderWhitespaces -> run_backward(line, col - 1, "space")
                [] mode = BlockOnWhitespace -> col
    ELSE col

\* the backward jump as it would be if a run of blanks were a token in every mode
jump_word_backward_blank_is_token(e, cur_pos, mode) ==
    IF ~get_line_chars_ok(e, cur_pos.row) THEN JumpPanic
    ELSE scan_backward(get_line_chars(e, cur_pos.row), cur_pos.column,
                       IF mode = IgnoreWhitespaces THEN ConsiderWhitespaces ELSE mode)

jump_word_backward(e, cur_pos, mode) ==
    IF ~get_line_chars_ok(e, cur_pos.row) THEN JumpPanic
    ELSE scan_backward(get_line_chars(e, cur_pos.row), cur_pos.column, mode)

\* the inner `while col < len && <class>(line[col])` loops
RECURSIVE run_forward(_, _, _, _)
run_forward(line, len, col, class) ==
    IF col < len
    THEN IF col >= Len(line) THEN JumpPanic
         ELSE IF InClass(line[col + 1], class) THEN run_forward(line, len, col + 1, class)
         ELSE col
    ELSE col

RECURSIVE scan_forward(_, _, _, _)
scan_forward(line, len, col, mode) ==
    IF col < len
    THEN IF col >= Len(line) THEN JumpPanic
         ELSE IF IsWordChar(line[col + 1]) THEN run_forward(line, len, col + 1, "word")
         ELSE IF IsQuoteChar(line[col + 1]) THEN col + 1
         ELSE IF ~is_ascii_whitespace(line[col + 1]) THEN run_forward(line, len, col + 1, "symbol")
         ELSE CASE mode = IgnoreWhitespaces -> scan_forward(line, len, col + 1, mode)
                [] mode = ConsiderWhitespaces -> run_forward(line, len, col + 1, "space")
                [] mode = BlockOnWhitespace -> col
    ELSE col

\* the forward jump as it would be if a run of blanks were a token in every mode
jump_word_forward_blank_is_token(e, cur_pos, mode) ==
    IF ~get_line_chars_ok(e, cur_pos.row) \/ cur_pos.row >= line_count(e) THEN JumpPanic
    ELSE scan_forward(get_line_chars(e, cur_pos.row), line_len(e, cur_pos.row),
                      cur_pos.column,
                      IF mode = IgnoreWhitespaces THEN ConsiderWhitespaces ELSE mode)

\* the forward jump as it would be if it scanned the whole slice of the row
jump_word_forward_whole_slice(e, cur_pos, mode) ==
    IF ~get_line_chars_ok(e, cur_pos.row) \/ cur_pos.row >= line_count(e) THEN JumpPanic
    ELSE scan_forward(get_line_chars(e, cur_pos.row), e.max_line_len,
                      cur_pos.column, mode)

jump_word_forward(e, cur_pos, mode) ==
    IF ~get_line_chars_ok(e, cur_pos.row) \/ cur_pos.row >= line_count(e) THEN JumpPanic
    ELSE scan_forward(get_line_chars(e, cur_pos.row), line_len(e, cur_pos.row),
                      cur_pos.column, mode)

\* ---- bulk insertion ------------------------------------------------------------
\* insert_at overwrites cells from (row, col) on; ret is the Pos it returns.
RECURSIVE insert_at_from(_, _, _, _)
insert_at_from(e, str, row, col) ==
    IF e.st # "ok" THEN e
    ELSE IF str = <<>>
    THEN IF row >= line_count(e) THEN Panic(e)
         ELSE [e EXCEPT !.line_lens[row + 1] = col, !.ret = from_row_column(row, col)]
    ELSE LET ch == Head(str) IN
         IF ch = "\r" THEN insert_at_from(e, Tail(str), row, col)
         ELSE IF ch = "\n" \/ col = e.max_line_len
         THEN IF row >= line_count(e) THEN Panic(e)
              ELSE LET e1 == insert_line_at([e EXCEPT !.line_lens[row + 1] = col], row + 1) IN
                   IF ch = "\n" THEN insert_at_from(e1, Tail(str), row + 1, 0)
                   ELSE insert_at_from(set_char(e1, row + 1, 0, ch), Tail(str), row + 1, 1)
         ELSE insert_at_from(set_char(e, row, col, ch), Tail(str), row, col + 1)

insert_at(e, str, row_index, at) == insert_at_from(e, str, row_index, at)

\* the byte size of text_to_move_buf; every character of the model is one byte
TEXT_TO_MOVE_BUF == 1024

\* ---- handle_input, one operator per match arm ----------------------------------
\* every arm starts from cur_pos = self.selection.get_cursor_pos()
SetSel(e, sel) == IF e.st # "ok" THEN e ELSE [e EXCEPT !.selection = sel]

SetSelAndColumn(e, sel) ==
    IF e.st # "ok" THEN e
    ELSE [e EXCEPT !.selection = sel, !.last_column_index = get_cursor_pos(sel).column]

\* Home as it would be if a second press went to the end of the row
input_Home_toggles(e, shift, ctrl) ==
    LET cur_pos == get_cursor_pos(e.selection)
        new_pos == with_column(cur_pos, IF cur_pos.column = 0 /\ cur_pos.row < line_count(e) THEN line_len(e, cur_pos.row) ELSE 0) IN
    SetSelAndColumn(e, IF shift THEN extend(e.selection, new_pos) ELSE from_pos(new_pos))

input_Home(e, shift, ctrl) ==
    LET cur_pos == get_cursor_pos(e.selection)
        new_pos == with_column(cur_pos, 0) IN
    SetSelAndColumn(e, IF shift THEN extend(e.selection, new_pos) ELSE from_pos(new_pos))

\* End as it would be if it went to the end of the anchor's row
input_End_of_anchor_row(e, shift, ctrl) ==
    LET cur_pos == e.selection.start IN
    IF cur_pos.row >= line_count(e) THEN Panic(e)
    ELSE LET new_pos == with_column(cur_pos, line_len(e, cur_pos.row)) IN
         SetSelAndColumn(e, IF shift THEN extend(e.selection, new_pos) ELSE from_pos(new_pos))

input_End(e, shift, ctrl) ==
    LET cur_pos == get_cursor_pos(e.selection) IN
    IF cur_pos.row >= line_count(e) THEN Panic(e)
    ELSE LET new_pos == with_column(cur_pos, line_len(e, cur_pos.row)) IN
         SetSelAndColumn(e, IF shift THEN extend(e.selection, new_pos) ELSE from_pos(new_pos))

\* Right as it would be if it never left the cursor's row
input_Right_stays_in_row(e, shift, ctrl) ==
    LET cur_pos == get_cursor_pos(e.selection) IN
    IF cur_pos.row >= line_count(e) THEN Panic(e)
    ELSE LET col == IF ctrl THEN jump_word_forward(e, cur_pos, IgnoreWhitespaces)
                    ELSE cur_pos.column + 1
             new_pos == IF cur_pos.column + 1 > line_len(e, cur_pos.row)
                        THEN IF cur_pos.row + 1 < line_count(e)
                             THEN cur_pos
                             ELSE cur_pos
                        ELSE with_column(cur_pos, col) IN
         IF cur_pos.column + 1 <= line_len(e, cur_pos.row) /\ col = JumpPanic THEN Panic(e)
         ELSE SetSelAndColumn(e,
                 IF shift THEN extend(e.selection, new_pos)
                 ELSE IF e.selection.end # None THEN from_pos(get_second(e.selection))
                 ELSE from_pos(new_pos))

input_Right(e, shift, ctrl) ==
    LET cur_pos == get_cursor_pos(e.selection) IN
    IF cur_pos.row >= line_count(e) THEN Panic(e)
    ELSE LET col == IF ctrl THEN jump_word_forward(e, cur_pos, IgnoreWhitespaces)
                    ELSE cur_pos.column + 1
             new_pos == IF cur_pos.column + 1 > line_len(e, cur_pos.row)
                        THEN IF cur_pos.row + 1 < line_count(e)
                             THEN from_row_column(cur_pos.row + 1, 0)
                             ELSE cur_pos
                        ELSE with_column(cur_pos, col) IN
         IF cur_pos.column + 1 <= line_len(e, cur_pos.row) /\ col = JumpPanic THEN Panic(e)
         ELSE SetSelAndColumn(e,
                 IF shift THEN extend(e.selection, new_pos)
                 ELSE IF e.selection.end # None THEN from_pos(get_second(e.selection))
                 ELSE from_pos(new_pos))

input_Left(e, shift, ctrl) ==
    LET cur_pos == get_cursor_pos(e.selection) IN
    IF cur_pos.column = 0 /\ cur_pos.row >= 1 /\ cur_pos.row - 1 >= line_count(e) THEN Panic(e)
    ELSE LET col == IF ctrl THEN jump_word_backward(e, cur_pos, IgnoreWhitespaces)
                    ELSE cur_pos.column - 1
             new_pos == IF cur_pos.column = 0
                        THEN IF cur_pos.row >= 1
                             THEN from_row_column(cur_pos.row - 1, line_len(e, cur_pos.row - 1))
                             ELSE cur_pos
                        ELSE with_column(cur_pos, col) IN
         IF cur_pos.column # 0 /\ col = JumpPanic THEN Panic(e)
         ELSE SetSelAndColumn(e,
                 IF shift THEN extend(e.selection, new_pos)
                 ELSE IF e.selection.end # None THEN from_pos(get_first(e.selection))
                 ELSE from_pos(new_pos))

Min(a, b) == IF a < b THEN a ELSE b

\* Up as it would be if it left the cursor alone on row 0
input_Up_keeps_column(e, shift, ctrl) ==
    LET cur_pos == get_cursor_pos(e.selection) IN
    IF cur_pos.row # 0 /\ cur_pos.row - 1 >= line_count(e) THEN Panic(e)
    ELSE LET new_pos == IF cur_pos.row = 0
                        THEN cur_pos
                        ELSE from_row_column(cur_pos.row - 1,
                                 Min(e.last_column_index, line_len(e, cur_pos.row - 1))) IN
         SetSel(e, IF shift THEN extend(e.selection, new_pos) ELSE from_pos(new_pos))

input_Up(e, shift, ctrl) ==
    LET cur_pos == get_cursor_pos(e.selection) IN
    IF cur_pos.row # 0 /\ cur_pos.row - 1 >= line_count(e) THEN Panic(e)
    ELSE LET new_pos == IF cur_pos.row = 0
                        THEN with_column(cur_pos, 0)
                        ELSE from_row_column(cur_pos.row - 1,
                                 Min(e.last_column_index, line_len(e, cur_pos.row - 1))) IN
         SetSel(e, IF shift THEN extend(e.selection, new_pos) ELSE from_pos(new_pos))

\* Down as it would be if it stored the new column like Left and Right do
input_Down_resets_column(e, shift, ctrl) ==
    LET cur_pos == get_cursor_pos(e.selection) IN
    IF line_count(e) = 0 THEN Panic(e)
    ELSE IF cur_pos.row = line_count(e) - 1
    THEN LET new_pos == with_column(cur_pos, line_len(e, cur_pos.row)) IN
         SetSelAndColumn(e, IF shift THEN extend(e.selection, new_pos) ELSE from_pos(new_pos))
    ELSE IF cur_pos.row + 1 >= line_count(e) THEN Panic(e)
    ELSE LET new_pos == from_row_column(cur_pos.row + 1,
                            Min(e.last_column_index, line_len(e, cur_pos.row + 1))) IN
         SetSelAndColumn(e, IF shift THEN extend(e.selection, new_pos) ELSE from_pos(new_pos))

input_Down(e, shift, ctrl) ==
    LET cur_pos == get_cursor_pos(e.selection) IN
    IF line_count(e) = 0 THEN Panic(e)
    ELSE IF cur_pos.row = line_count(e) - 1
    THEN LET new_pos == with_column(cur_pos, line_len(e, cur_pos.row)) IN
         SetSel(e, IF shift THEN extend(e.selection, new_pos) ELSE from_pos(new_pos))
    ELSE IF cur_pos.row + 1 >= line_count(e) THEN Panic(e)
    ELSE LET new_pos == from_row_column(cur_pos.row + 1,
                            Min(e.last_column_index, line_len(e, cur_pos.row + 1))) IN
         SetSel(e, IF shift THEN extend(e.selection, new_pos) ELSE from_pos(new_pos))

\* Del as it would be if ctrl deleted the blanks together with the token behind them
input_Del_ignores_blanks(e, shift, ctrl) ==
    LET cur_pos == get_cursor_pos(e.selection) IN
    IF e.selection.end # None
    THEN LET first == get_first(e.selection)
             second == get_second(e.selection) IN
         SetSel(remove_selection(e, first, second), from_pos(first))
    ELSE IF cur_pos.row >= line_count(e) THEN Panic(e)
    ELSE IF cur_pos.column = line_len(e, cur_pos.row)
    THEN IF cur_pos.row < line_count(e) - 1
         THEN merge_with_next_row(e, cur_pos.row, line_len(e, cur_pos.row), 0)
         ELSE e
    ELSE IF ctrl
    THEN LET col == jump_word_forward(e, cur_pos, IgnoreWhitespaces) IN
         IF col = JumpPanic THEN Panic(e)
         ELSE remove_selection(e, cur_pos, with_column(cur_pos, col))
    ELSE remove_char(e, cur_pos.row, cur_pos.column)

\* input_Del leaving the selection as it is after deleting a range
input_Del_keeps_range(e, shift, ctrl) ==
    LET cur_pos == get_cursor_pos(e.selection) IN
    IF e.selection.end # None
    THEN LET first == get_first(e.selection)
             second == get_second(e.selection) IN
         remove_selection(e, first, second)
    ELSE IF cur_pos.row >= line_count(e) THEN Panic(e)
    ELSE IF cur_pos.column = line_len(e, cur_pos.row)
    THEN IF cur_pos.row < line_count(e) - 1
         THEN merge_with_next_row(e, cur_pos.row, line_len(e, cur_pos.row), 0)
         ELSE e
    ELSE IF ctrl
    THEN LET col == jump_word_forward(e, cur_pos, ConsiderWhitespaces) IN
         IF col = JumpPanic THEN Panic(e)
         ELSE remove_selection(e, cur_pos, with_column(cur_pos, col))
    ELSE remove_char(e, cur_pos.row, cur_pos.column)

input_Del(e, shift, ctrl) ==
    LET cur_pos == get_cursor_pos(e.selection) IN
    IF e.selection.end # None
    THEN LET first == get_first(e.selection)
             second == get_second(e.selection) IN
         SetSel(remove_selection(e, first, second), from_pos(first))
    ELSE IF cur_pos.row >= line_count(e) THEN Panic(e)
    ELSE IF cur_pos.column = line_len(e, cur_pos.row)
    THEN IF cur_pos.row < line_count(e) - 1
         THEN merge_with_next_row(e, cur_pos.row, line_len(e, cur_pos.row), 0)
         ELSE e
    ELSE IF ctrl
    THEN LET col == jump_word_forward(e, cur_pos, ConsiderWhitespaces) IN
         IF col = JumpPanic THEN Panic(e)
         ELSE remove_selection(e, cur_pos, with_column(cur_pos, col))
    ELSE remove_char(e, cur_pos.row, cur_pos.column)

input_Enter(e, shift, ctrl) ==
    LET cur_pos == get_cursor_pos(e.selection) IN
    IF e.selection.end # None
    THEN LET first == get_first(e.selection)
             second == get_second(e.selection) IN
         SetSel(split_line(remove_selection(e, first, second), first.row, first.column),
                from_pos(from_row_column(first.row + 1, 0)))
    ELSE SetSel(split_line(e, cur_pos.row, cur_pos.column),
                from_pos(from_row_column(cur_pos.row + 1, 0)))

\* Backspace as it would be if ctrl stopped at the blanks before the caret
input_Backspace_keeps_blanks(e, shift, ctrl) ==
    LET cur_pos == get_cursor_pos(e.selection) IN
    IF e.selection.end # None
    THEN LET first == get_first(e.selection)
             second == get_second(e.selection) IN
         SetSel(remove_selection(e, first, second), from_pos(first))
    ELSE IF cur_pos.column = 0
    THEN IF cur_pos.row > 0
         THEN LET prev_row_i == cur_pos.row - 1 IN
              IF prev_row_i >= line_count(e) THEN Panic(e)
              ELSE LET prev_len_before_merge == line_len(e, prev_row_i)
                       e1 == merge_with_next_row(e, prev_row_i, prev_len_before_merge, 0) IN
                   IF e1.st = "ok" /\ e1.ret
                   THEN SetSel(e1, from_pos(from_row_column(prev_row_i, prev_len_before_merge)))
                   ELSE e1
         ELSE e
    ELSE IF ctrl
    THEN LET col == jump_word_backward(e, cur_pos, ConsiderWhitespaces)
             new_pos == with_column(cur_pos, col) IN
         IF col = JumpPanic THEN Panic(e)
         ELSE SetSel(remove_selection(e, new_pos, cur_pos), from_pos(new_pos))
    ELSE LET e1 == remove_char(e, cur_pos.row, cur_pos.column - 1) IN
         IF e1.st = "ok" /\ e1.ret
         THEN SetSel(e1, from_pos(with_column(cur_pos, cur_pos.column - 1)))
         ELSE e1

input_Backspace(e, shift, ctrl) ==
    LET cur_pos == get_cursor_pos(e.selection) IN
    IF e.selection.end # None
    THEN LET first == get_first(e.selection)
             second == get_second(e.selection) IN
         SetSel(remove_selection(e, first, second), from_pos(first))
    ELSE IF cur_pos.column = 0
    THEN IF cur_pos.row > 0
         THEN LET prev_row_i == cur_pos.row - 1 IN
              IF prev_row_i >= line_count(e) THEN Panic(e)
              ELSE LET prev_len_before_merge == line_len(e, prev_row_i)
                       e1 == merge_with_next_row(e, prev_row_i, prev_len_before_merge, 0) IN
                   IF e1.st = "ok" /\ e1.ret
                   THEN SetSel(e1, from_pos(from_row_column(prev_row_i, prev_len_before_merge)))
                   ELSE e1
         ELSE e
    ELSE IF ctrl
    THEN LET col == jump_word_backward(e, cur_pos, IgnoreWhitespaces)
             new_pos == with_column(cur_pos, col) IN
         IF col = JumpPanic THEN Panic(e)
         ELSE SetSel(remove_selection(e, new_pos, cur_pos), from_pos(new_pos))
    ELSE LET e1 == remove_char(e, cur_pos.row, cur_pos.column - 1) IN
         IF e1.st = "ok" /\ e1.ret
         THEN SetSel(e1, from_pos(with_column(cur_pos, cur_pos.column - 1)))
         ELSE e1

\* Char('e') with ctrl: both columns are put on the row of cur_pos
\* Char('e') with ctrl as it would be if a caret expanded across blanks too
input_Char_ctrl_e_crosses_blanks(e) ==
    LET cur_pos == get_cursor_pos(e.selection)
        mode == IF e.selection.end # None THEN IgnoreWhitespaces ELSE IgnoreWhitespaces
        prev_index == jump_word_backward(e, get_first(e.selection), mode)
        next_index == jump_word_forward(e, get_second(e.selection), mode) IN
    IF prev_index = JumpPanic \/ next_index = JumpPanic THEN Panic(e)
    ELSE SetSel(e, range(with_column(cur_pos, prev_index), with_column(cur_pos, next_index)))

input_Char_ctrl_e(e) ==
    LET cur_pos == get_cursor_pos(e.selection)
        mode == IF e.selection.end # None THEN IgnoreWhitespaces ELSE BlockOnWhitespace
        prev_index == jump_word_backward(e, get_first(e.selection), mode)
        next_index == jump_word_forward(e, get_second(e.selection), mode) IN
    IF prev_index = JumpPanic \/ next_index = JumpPanic THEN Panic(e)
    ELSE SetSel(e, range(with_column(cur_pos, prev_index), with_column(cur_pos, next_index)))

\* input_Char without the ctrl+'e' arm: the letter is typed
input_Char_ctrl_inserts(e, ch, shift, ctrl) ==
    LET cur_pos == get_cursor_pos(e.selection) IN
    IF ch = "e" /\ ctrl /\ ~ctrl THEN input_Char_ctrl_e(e)
    ELSE IF e.selection.end # None
    THEN LET first == [get_first(e.selection) EXCEPT !.column = @ + 1]
             second == get_second(e.selection)
             e1 == remove_selection(e, first, second)
             e2 == IF e1.st = "ok" /\ e1.ret
                   THEN set_char(e1, first.row, first.column - 1, ch)
                   ELSE e1 IN
         SetSel(e2, from_pos(first))
    ELSE LET e1 == insert_char(e, cur_pos.row, cur_pos.column, ch) IN
         IF e1.st = "ok" /\ e1.ret
         THEN SetSel(e1, from_pos(with_column(cur_pos, cur_pos.column + 1)))
         ELSE e1

\* input_Char storing the new column as the sticky column
input_Char_remembers_column(e, ch, shift, ctrl) ==
    LET cur_pos == get_cursor_pos(e.selection) IN
    IF ch = "e" /\ ctrl THEN input_Char_ctrl_e(e)
    ELSE IF e.selection.end # None
    THEN LET first == [get_first(e.selection) EXCEPT !.column = @ + 1]
             second == get_second(e.selection)
             e1 == remove_selection(e, first, second)
             e2 == IF e1.st = "ok" /\ e1.ret
                   THEN set_char(e1, first.row, first.column - 1, ch)
                   ELSE e1 IN
         SetSel(e2, from_pos(first))
    ELSE LET e1 == insert_char(e, cur_pos.row, cur_pos.column, ch) IN
         IF e1.st = "ok" /\ e1.ret
         THEN SetSelAndColumn(e1, from_pos(with_column(cur_pos, cur_pos.column + 1)))
         ELSE e1

input_Char(e, ch, shift, ctrl) ==
    LET cur_pos == get_cursor_pos(e.selection) IN
    IF ch = "e" /\ ctrl THEN input_Char_ctrl_e(e)
    ELSE IF e.selection.end # None
    THEN LET first == [get_first(e.selection) EXCEPT !.column = @ + 1]
             second == get_second(e.selection)
             e1 == remove_selection(e, first, second)
             e2 == IF e1.st = "ok" /\ e1.ret
                   THEN set_char(e1, first.row, first.column - 1, ch)
                   ELSE e1 IN
         SetSel(e2, from_pos(first))
    ELSE LET e1 == insert_char(e, cur_pos.row, cur_pos.column, ch) IN
         IF e1.st = "ok" /\ e1.ret
         THEN SetSel(e1, from_pos(with_column(cur_pos, cur_pos.column + 1)))
         ELSE e1

input_Text(e, str, shift, ctrl) ==
    LET cur_pos == get_cursor_pos(e.selection) IN
    IF ~get_line_chars_ok(e, cur_pos.row) \/ cur_pos.row >= line_count(e) THEN Panic(e)
    ELSE LET len == line_len(e, cur_pos.row)
             line == get_line_chars(e, cur_pos.row) IN
         IF cur_pos.column > len \/ len > Len(line) THEN Panic(e)
         ELSE LET text_to_move == SubSeq(line, cur_pos.column + 1, len) IN
              IF Len(text_to_move) > TEXT_TO_MOVE_BUF THEN Panic(e)
              ELSE LET e1 == insert_at(e, str, cur_pos.row, cur_pos.column)
                       new_pos == e1.ret
                       e2 == IF e1.st = "ok" /\ Len(text_to_move) > 0
                             THEN insert_at(e1, text_to_move, new_pos.row, new_pos.column)
                             ELSE e1 IN
                   SetSel(e2, from_pos(new_pos))

Keys == {"Left", "Right", "Up", "Down", "Home", "End", "Enter", "Backspace", "Del"}

\* handle_input(input, modifiers); modifiers.alt is never read by the source
handle_input(e, key, arg, shift, ctrl) ==
    CASE key = "Home" -> input_Home(e, shift, ctrl)
      [] key = "End" -> input_End(e, shift, ctrl)
      [] key = "Right" -> input_Right(e, shift, ctrl)
      [] key = "Left" -> input_Left(e, shift, ctrl)
      [] key = "Up" -> input_Up(e, shift, ctrl)
      [] key = "Down" -> input_Down(e, shift, ctrl)
      [] key = "Del" -> input_Del(e, shift, ctrl)
      [] key = "Enter" -> input_Enter(e, shift, ctrl)
      [] key = "Backspace" -> input_Backspace(e, shift, ctrl)
      [] key = "Char" -> input_Char(e, arg, shift, ctrl)
      [] key = "Text" -> input_Text(e, arg, shift, ctrl)

set_cursor_pos(e, row_index, column_index) ==
    [e EXCEPT !.selection = single(row_index, column_index),
              !.last_column_index = column_index]

set_selection(e, start, end) ==
    [e EXCEPT !.selection = range(start, end),
              !.last_column_index = get_cursor_pos(range(start, end)).column]

\* handle_click as it would be if it did not clamp the column to the row length
handle_click_unclamped(e, x, y) ==
    IF line_count(e) = 0 THEN Panic(e)
    ELSE LET y1 == IF y >= line_count(e) THEN line_count(e) - 1 ELSE y
             col == x IN
         SetSel(e, from_pos(from_row_column(y1, col)))

handle_click(e, x, y) ==
    IF line_count(e) = 0 THEN Panic(e)
    ELSE LET y1 == IF y >= line_count(e) THEN line_count(e) - 1 ELSE y
             col == Min(x, line_len(e, y1)) IN
         SetSel(e, from_pos(from_row_column(y1, col)))

handle_drag(e, x, y) ==
    IF line_count(e) = 0 THEN Panic(e)
    ELSE LET y1 == IF y >= line_count(e) THEN line_count(e) - 1 ELSE y
             col == Min(x, line_len(e, y1)) IN
         SetSel(e, extend(e.selection, from_row_column(y1, col)))

\* ---- get_selected_text ---------------------------------------------------------------
\* &canvas[from..to] panics unless this holds
slice_ok(cv, from, to) == from <= to /\ to <= Len(cv)

\* the `for i in start.row + 1..end.row` loop: '\n' after every full row
RECURSIVE full_lines(_, _, _)
full_lines(e, i, end_row) ==
    IF i >= end_row THEN <<>>
    ELSE SubSeq(e.canvas, get_char_pos(e, i, 0) + 1, get_char_pos(e, i, line_len(e, i)))
            \o <<"\n">> \o full_lines(e, i + 1, end_row)

\* st: "ok" or "panic"; text: the Option<String> returned
get_selected_text(e) ==
    IF e.selection.end = None THEN [st |-> "ok", text |-> None]
    ELSE LET start == get_first(e.selection)
             end == get_second(e.selection) IN
         IF end.row > start.row
         THEN IF \/ \E i \in start.row..(end.row - 1) :
                       \/ i >= line_count(e)
                       \/ ~slice_ok(e.canvas, get_char_pos(e, i, IF i = start.row THEN start.column ELSE 0),
                                    get_char_pos(e, i, line_len(e, i)))
                 \/ ~slice_ok(e.canvas, get_char_pos(e, end.row, 0),
                              get_char_pos(e, end.row, end.column))
              THEN [st |-> "panic", text |-> None]
              ELSE [st |-> "ok",
                    text |-> Some(
                        SubSeq(e.canvas, get_char_pos(e, start.row, start.column) + 1,
                               get_char_pos(e, start.row, line_len(e, start.row)))
                        \o <<"\n">>
                        \o full_lines(e, start.row + 1, end.row)
                        \o SubSeq(e.canvas, get_char_pos(e, end.row, 0) + 1,
                                  get_char_pos(e, end.row, end.column)))]
         ELSE IF ~slice_ok(e.canvas, get_char_pos(e, start.row, start.column),
                           get_char_pos(e, start.row, end.column))
         THEN [st |-> "panic", text |-> None]
         ELSE [st |-> "ok",
               text |-> Some(SubSeq(e.canvas, get_char_pos(e, start.row, start.column) + 1,
                                    get_char_pos(e, start.row, end.column)))]

\* ---- whole-buffer operations ---------------------------------------------------------
\* clear sets every row length to 0; it removes no row
clear(e) == [e EXCEPT !.line_lens = [i \in 1..Len(@) |-> 0]]

set_content(e, text) ==
    [insert_at(set_cursor_pos(clear(e), 0, 0), text, 0, 0) EXCEPT !.ret = FALSE]

\* canvas.chunks(max_line_len): the number of chunks and the length of chunk i (1-based)
chunk_count(e) == (Len(e.canvas) + e.max_line_len - 1) \div e.max_line_len

chunk_len(e, i) == Min(e.max_line_len, Len(e.canvas) - (i - 1) * e.max_line_len)

\* lines() zips the chunks with line_lens and slices line[0..len]: it panics
\* when max_line_len is 0 or a length exceeds its chunk
lines_ok(e) ==
    /\ e.max_line_len > 0
    /\ \A i \in 1..Min(chunk_count(e), Len(e.line_lens)) : e.line_lens[i] <= chunk_len(e, i)

lines(e) ==
    [i \in 1..Min(chunk_count(e), Len(e.line_lens)) |->
        SubSeq(e.canvas, (i - 1) * e.max_line_len + 1, (i - 1) * e.max_line_len + e.line_lens[i])]

\* every line followed by '\n'
RECURSIVE join_lines(_)
join_lines(ls) == IF ls = <<>> THEN <<>> ELSE Head(ls) \o <<"\n">> \o join_lines(Tail(ls))

get_content(e) == join_lines(lines(e))

\* ---- the state machine ------------------------------------------------------------
\* canvas, line_lens, selection, last_column_index, max_line_len: the Editor's fields.
\* status: "ok" while the editor is usable; "panic" after a call panicked;
\*         "wrapped" after a usize subtraction wrapped around (overflow checks
\*         off).  Both end the run, the fields keep their values from before
\*         the call.
\* last:   the call that produced this state (history): the key, "Char",
\*         "ExpandWord" (Char('e') with ctrl), "Text", "Click", "Drag",
\*         "SetContent", "Tick" or the name of the function called directly;
\*         "new" before the first call.
\* broken: 0 while the editor has always been within its contract, else one
\*         plus the number of calls made since it first left it (history,
\*         bounds the exploration).
\* row_limit: no call is followed that would leave more rows than this
\*         (bounds the exploration).
\* single_call: only the first call on the editor is followed (bounds the
\*         exploration of the prepared editors).
\* show_cursor, next_blink_at: the Editor's blink fields, written by
\*         handle_tick only.
\* clock:  the `now` of the latest handle_tick call, 0 before the first
\*         (history: the host's clock does not go back).
\* toggled_at: Some(`now`) of the latest call that toggled show_cursor, None
\*         before the first (history).
VARIABLES canvas, line_lens, selection, last_column_index, max_line_len, status, last,
          broken, row_limit, single_call,
          show_cursor, next_blink_at, clock, toggled_at

vars == <<canvas, line_lens, selection, last_column_index, max_line_len, status, last,
          broken, row_limit, single_call,
          show_cursor, next_blink_at, clock, toggled_at>>

\* the blink fields and their history
blink == <<show_cursor, next_blink_at, clock, toggled_at>>

\* the blink fields after Editor::new
NewBlink ==
    /\ show_cursor = FALSE
    /\ next_blink_at = [hi |-> 0, lo |-> 0]
    /\ clock = [hi |-> 0, lo |-> 0]
    /\ toggled_at = None

PosInBuffer(lens, pos) == pos.row < Len(lens) /\ pos.column <= lens[pos.row + 1]

InContract(lens, sel, max_len) ==
    /\ \A i \in 1..Len(lens) : lens[i] <= max_len
    /\ PosInBuffer(lens, sel.start)
    /\ sel.end # None => PosInBuffer(lens, sel.end[1])

Editor ==
    [ canvas |-> canvas,
      line_lens |-> line_lens,
      max_line_len |-> max_line_len,
      selection |-> selection,
      last_column_index |-> last_column_index,
      st |-> "ok",
      ret |-> FALSE,
      capfail |-> FALSE ]

NoCall == "new"

\* the editor after a call that returned e2
Becomes(e2, op) ==
    /\ e2.st = "ok" => Len(e2.line_lens) <= row_limit
    /\ last' = op
    /\ broken' = IF broken = 0
                    /\ (e2.st # "ok" \/ InContract(e2.line_lens, e2.selection, max_line_len))
                 THEN 0 ELSE broken + 1
    /\ IF e2.st = "ok"
       THEN /\ canvas' = e2.canvas
            /\ line_lens' = e2.line_lens
            /\ selection' = e2.selection
            /\ last_column_index' = e2.last_column_index
            /\ status' = "ok"
       ELSE /\ UNCHANGED <<canvas, line_lens, selection, last_column_index>>
            /\ status' \in (IF e2.st = "overflow" THEN {"panic", "wrapped"} ELSE {"panic"})
    /\ UNCHANGED <<max_line_len, row_limit, single_call, blink>>

\* a call can be made: the process has not panicked (and the exploration goes on)
Live ==
    /\ status = "ok"
    /\ broken <= MaxBrokenCalls
    /\ single_call => last = NoCall

Init ==
    LET e == new(MaxLineLen) IN
    /\ canvas = e.canvas
    /\ line_lens = e.line_lens
    /\ selection = e.selection
    /\ last_column_index = e.last_column_index
    /\ max_line_len = e.max_line_len
    /\ status = "ok"
    /\ last = NoCall
    /\ broken = 0
    /\ row_limit = MaxRows
    /\ single_call = FALSE
    /\ NewBlink

RECURSIVE SeqsUpTo(_, _)
SeqsUpTo(S, n) ==
    IF n = 0 THEN {<<>>}
    ELSE LET shorter == SeqsUpTo(S, n - 1) IN
         shorter \cup {Append(t, c) : t \in shorter, c \in S}

Texts == SeqsUpTo(TextChars, MaxTextLen)

KeyInput(key) ==
    \E shift \in BOOLEAN, ctrl \in BOOLEAN :
        LET e2 == handle_input(Editor, key, <<>>, shift, ctrl) IN
        Becomes(e2, key)

Home == Live /\ KeyInput("Home")
End == Live /\ KeyInput("End")
Left == Live /\ KeyInput("Left")
Right == Live /\ KeyInput("Right")
Up == Live /\ KeyInput("Up")
Down == Live /\ KeyInput("Down")
Del == Live /\ KeyInput("Del")
Enter == Live /\ KeyInput("Enter")
Backspace == Live /\ KeyInput("Backspace")

CharInput ==
    /\ Live
    /\ \E ch \in InputChars, shift \in BOOLEAN, ctrl \in BOOLEAN :
        LET e2 == handle_input(Editor, "Char", ch, shift, ctrl) IN
        Becomes(e2, "Char")

ExpandWord ==
    /\ Live
    /\ \E shift \in BOOLEAN :
        LET e2 == handle_input(Editor, "Char", "e", shift, TRUE) IN
        Becomes(e2, "ExpandWord")

\* the Text arm reads no modifier
TextInput ==
    /\ Live
    /\ \E str \in Texts :
        LET e2 == handle_input(Editor, "Text", str, FALSE, FALSE) IN
        Becomes(e2, "Text")

Click ==
    /\ Live
    /\ \E x \in 0..MaxClick, y \in 0..MaxClick :
        LET e2 == handle_click(Editor, x, y) IN
        Becomes(e2, "Click")

Drag ==
    /\ Live
    /\ \E x \in 0..MaxClick, y \in 0..MaxClick :
        LET e2 == handle_drag(Editor, x, y) IN
        Becomes(e2, "Drag")

SetContent ==
    /\ Live
    /\ \E text \in Texts :
        LET e2 == set_content(Editor, text) IN
        Becomes(e2, "SetContent")

\* the calls through which input reaches the editor: handle_input,
\* handle_click, handle_drag and set_content
HandlerNext ==
    \/ Home \/ End \/ Left \/ Right \/ Up \/ Down
    \/ Del \/ Enter \/ Backspace
    \/ CharInput \/ ExpandWord \/ TextInput
    \/ Click \/ Drag
    \/ SetContent

SpecHandlers == Init /\ [][HandlerNext]_vars

\* the other public functions that write the buffer or the selection, called
\* directly
Cells == 0..MaxLineLen
RowIndices == 0..MaxRows

PushLine == Live /\ Becomes(push_line(Editor), "push_line")

InsertLineAt ==
    /\ Live
    /\ \E at \in RowIndices : Becomes(insert_line_at(Editor, at), "insert_line_at")

RemoveLineAt ==
    /\ Live
    /\ \E at \in RowIndices : Becomes(remove_line_at(Editor, at), "remove_line_at")

SetChar ==
    /\ Live
    /\ \E row \in RowIndices, col \in Cells, ch \in InputChars :
          Becomes(set_char(Editor, row, col, ch), "set_char")

InsertChar ==
    /\ Live
    /\ \E row \in RowIndices, col \in Cells, ch \in InputChars :
          Becomes(insert_char(Editor, row, col, ch), "insert_char")

RemoveChar ==
    /\ Live
    /\ \E row \in RowIndices, col \in Cells :
          Becomes(remove_char(Editor, row, col), "remove_char")

Clear == Live /\ Becomes(clear(Editor), "clear")

SetCursorPos ==
    /\ Live
    /\ \E row \in RowIndices, col \in Cells :
          Becomes(set_cursor_pos(Editor, row, col), "set_cursor_pos")

SetSelection ==
    /\ Live
    /\ \E start \in [row : RowIndices, column : Cells], end \in [row : RowIndices, column : Cells] :
          Becomes(set_selection(Editor, start, end), "set_selection")

Next ==
    \/ HandlerNext
    \/ PushLine \/ InsertLineAt \/ RemoveLineAt
    \/ SetChar \/ InsertChar \/ RemoveChar
    \/ Clear \/ SetCursorPos \/ SetSelection

Spec == Init /\ [][Next]_vars

\* ---- one call on a prepared buffer ----------------------------------------------------
\* The buffer is prepared the way test0 of the source prepares it from its
\* marked-up content: for every line of the content, set_char for every
\* character (which appends the rows that are missing), then the row length is
\* stored, which panics for a row no set_char has made; set_selection comes
\* last.  The contents are those of every shape of up to MaxRows + 1 rows with
\* a different letter in every cell and every in-bounds selection.  One call is
\* made on the prepared buffer.
RECURSIVE Prepared(_, _, _)
Prepared(e, lens, r) ==
    IF e.st # "ok" \/ r >= Len(lens) THEN e
    ELSE LET RECURSIVE fill(_, _)
             fill(e1, c) ==
                IF c >= lens[r + 1] THEN e1
                ELSE fill(set_char(e1, r, c, Letters[((r * e.max_line_len + c) % Len(Letters)) + 1]),
                          c + 1)
             e2 == fill(e, 0) IN
         IF e2.st # "ok" \/ r >= line_count(e2) THEN Panic(e2)
         ELSE Prepared([e2 EXCEPT !.line_lens[r + 1] = lens[r + 1]], lens, r + 1)

\* str::lines() on the content: a last line that holds neither a character nor
\* a selection mark is no line
ContentLines(lens, start, end) ==
    IF /\ lens[Len(lens)] = 0
       /\ start.row # Len(lens) - 1
       /\ end.row # Len(lens) - 1
    THEN SubSeq(lens, 1, Len(lens) - 1)
    ELSE lens

RowShapes == UNION {[1..n -> 0..MaxLineLen] : n \in 1..(MaxRows + 1)}

PositionsIn(lens) == {from_row_column(r, c) : r \in 0..(Len(lens) - 1), c \in 0..MaxLineLen}
                     \cap {pos \in [row : 0..(Len(lens) - 1), column : 0..MaxLineLen] :
                             PosInBuffer(lens, pos)}

EditInit ==
    \E lens \in RowShapes :
        \E start \in PositionsIn(lens), end \in PositionsIn(lens) :
            LET e == set_selection(Prepared(new(MaxLineLen), ContentLines(lens, start, end), 0),
                                   start, end) IN
            /\ e.st = "ok"
            /\ canvas = e.canvas
            /\ line_lens = e.line_lens
            /\ selection = e.selection
            /\ last_column_index = e.last_column_index
            /\ max_line_len = e.max_line_len
            /\ status = "ok"
            /\ last = NoCall
            /\ broken = 0
            /\ row_limit = MaxRows + 2
            /\ single_call = TRUE
            /\ NewBlink

SpecEdit == EditInit /\ [][HandlerNext]_vars

\* ---- selection ordering on wide rows -------------------------------------------------
\* An editor whose rows are wider than the stride of get_first / get_second:
\* MaxRows full rows of WideLineLen double quotes, every selection whose
\* columns lie around the stride, then one call that moves the selection.
WideLineLen == 1025

WideColumns == {0, 1, RANK_STRIDE - 1, RANK_STRIDE, RANK_STRIDE + 1}

WidePositions == {from_row_column(r, c) : r \in 0..(MaxRows - 1), c \in WideColumns}

WideInit ==
    \E start \in WidePositions, end \in WidePositions :
        LET e == set_selection(
                    [new(WideLineLen) EXCEPT
                        !.canvas = [i \in 1..(MaxRows * WideLineLen) |-> "\""],
                        !.line_lens = [i \in 1..MaxRows |-> WideLineLen]],
                    start, end) IN
        /\ canvas = e.canvas
        /\ line_lens = e.line_lens
        /\ selection = e.selection
        /\ last_column_index = e.last_column_index
        /\ max_line_len = e.max_line_len
        /\ status = "ok"
        /\ last = NoCall
        /\ broken = 0
        /\ row_limit = MaxRows + 2
        /\ single_call = TRUE
        /\ NewBlink

\* the calls that move the selection
WideNext == Home \/ End \/ Left \/ Right \/ Up \/ Down \/ Click \/ Drag

SpecWide == WideInit /\ [][WideNext]_vars

\* ---- one call on rows of words ----------------------------------------------------
\* Buffers of two rows written the way the tests of the source write them: the
\* first row is every string of up to WordLen characters out of a letter, a
\* blank, a double quote and a symbol, the second row is a word and a blank;
\* every in-bounds selection.  One further buffer holds the row of the ctrl+Left
\* test of the source with the caret after the blank.  One call is made.
WordLen == 3

WordChars == {"a", " ", "\"", "+"}

SecondRow == <<"b", " ">>

TestRow == <<"a", "b", "c", "d", "e", "f", "g", "h", "i", "j", "k", "l", " ",
             "m", "n", "o", "p", "q", "r", "s", "t", "u", "v", "w", "x", "y", "z">>

RECURSIVE Written(_, _, _)
Written(e, rows, r) ==
    IF e.st # "ok" \/ r >= Len(rows) THEN e
    ELSE LET RECURSIVE fill(_, _)
             fill(e1, c) ==
                IF c >= Len(rows[r + 1]) THEN e1
                ELSE fill(set_char(e1, r, c, rows[r + 1][c + 1]), c + 1)
             e2 == fill(e, 0) IN
         IF e2.st # "ok" \/ r >= line_count(e2) THEN Panic(e2)
         ELSE Written([e2 EXCEPT !.line_lens[r + 1] = Len(rows[r + 1])], rows, r + 1)

PositionsOf(rows) ==
    {pos \in [row : 0..(Len(rows) - 1), column : 0..Len(TestRow)] :
        pos.column <= Len(rows[pos.row + 1])}

WordsInit ==
    \E rows \in {<<w, SecondRow>> : w \in SeqsUpTo(WordChars, WordLen)} \cup {<<TestRow>>} :
        \E start \in PositionsOf(rows), end \in PositionsOf(rows) :
            LET wide == rows = <<TestRow>>
                e == set_selection(
                        Written(new(IF wide THEN Len(TestRow) ELSE WordLen), rows, 0),
                        start, end) IN
            /\ wide => start = end /\ start.column = 13
            /\ e.st = "ok"
            /\ canvas = e.canvas
            /\ line_lens = e.line_lens
            /\ selection = e.selection
            /\ last_column_index = e.last_column_index
            /\ max_line_len = e.max_line_len
            /\ status = "ok"
            /\ last = NoCall
            /\ broken = 0
            /\ row_limit = MaxRows + 2
            /\ single_call = TRUE
            /\ NewBlink

SpecWords == WordsInit /\ [][HandlerNext]_vars

\* ---- the blinking cursor -----------------------------------------------------------
\* `now` and next_blink_at are u32.  A u32 is held as its two 16-bit halves,
\* [hi, lo] standing for hi * 65536 + lo.
HALF == 65536

\* the literal 500 of handle_tick
BLINK_INTERVAL == 500

U32FromNat(n) == [hi |-> n \div HALF, lo |-> n % HALF]

\* a + n in u32 arithmetic (n < HALF), wrapped around
U32Add(a, n) == [hi |-> (a.hi + (a.lo + n) \div HALF) % HALF, lo |-> (a.lo + n) % HALF]

\* a + n does not fit a u32
U32AddOverflows(a, n) == a.hi + (a.lo + n) \div HALF >= HALF

\* a >= b
U32Geq(a, b) == a.hi > b.hi \/ (a.hi = b.hi /\ a.lo >= b.lo)

\* handle_tick(now) on the blink fields b.  st = "overflow" marks `now + 500`
\* exceeding u32: a panic with overflow checks on; without them the fields
\* given here, with the sum wrapped around, are stored.
handle_tick(b, now) ==
    IF U32Geq(now, b.next_blink_at)
    THEN [ show_cursor |-> ~b.show_cursor,
           next_blink_at |-> U32Add(now, BLINK_INTERVAL),
           ret |-> TRUE,
           st |-> IF U32AddOverflows(now, BLINK_INTERVAL) THEN "overflow" ELSE "ok" ]
    ELSE [ show_cursor |-> b.show_cursor,
           next_blink_at |-> b.next_blink_at,
           ret |-> FALSE,
           st |-> "ok" ]

Blinker == [show_cursor |-> show_cursor, next_blink_at |-> next_blink_at]

\* the number of blink intervals the clock values of the model span
MaxBlinks == 3

\* the clock values handle_tick is called with: around every multiple of the
\* interval, and the last values of a u32
TickTimes ==
    {U32FromNat(t) : t \in {n \in {k * BLINK_INTERVAL + d : k \in 0..MaxBlinks, d \in {-1, 0, 1, BLINK_INTERVAL \div 2}} :
                               n >= 0}}
        \cup {[hi |-> HALF - 1, lo |-> HALF - 1 - back] :
                 back \in {0, BLINK_INTERVAL - 1, BLINK_INTERVAL}}

\* the host calls handle_tick with a clock that does not go back
Tick ==
    /\ status = "ok"
    /\ \E now \in TickTimes :
          LET t == handle_tick(Blinker, now) IN
          /\ U32Geq(now, clock)
          /\ clock' = now
          /\ last' = "Tick"
          /\ \/ /\ t.st = "ok" \/ t.st = "overflow"
                /\ show_cursor' = t.show_cursor
                /\ next_blink_at' = t.next_blink_at
                /\ toggled_at' = IF t.ret THEN Some(now) ELSE toggled_at
                /\ status' = "ok"
             \/ /\ t.st = "overflow"
                /\ UNCHANGED <<show_cursor, next_blink_at, toggled_at>>
                /\ status' = "panic"
    /\ UNCHANGED <<canvas, line_lens, selection, last_column_index, max_line_len,
                   broken, row_limit, single_call>>

SpecTick == Init /\ [][Tick]_vars

\* ---- what a caller can observe of the buffer -----------------------------------------
\* lines(): the rows a caller reads; it panics on a row longer than its chunk
LinesPanic == <<<<"LinesPanic">>>>

RowsOf(cv, lens, m) ==
    LET e == [canvas |-> cv, line_lens |-> lens, max_line_len |-> m] IN
    IF lines_ok(e) THEN lines(e) ELSE LinesPanic

Rows == RowsOf(canvas, line_lens, max_line_len)

\* get_content(): every row followed by "\n"; it panics when lines() does
ContentPanic == <<"ContentPanic">>

ContentOf(e) == IF lines_ok(e) THEN get_content(e) ELSE ContentPanic

Document == ContentOf(Editor)

RECURSIVE RowStart(_, _)
RowStart(lens, r) == IF r = 0 THEN 0 ELSE RowStart(lens, r - 1) + lens[r] + 1

\* number of document characters before pos
Offset(lens, pos) == RowStart(lens, pos.row) + pos.column

DocLess(p, q) == p.row < q.row \/ (p.row = q.row /\ p.column < q.column)

Earlier(p, q) == IF DocLess(q, p) THEN q ELSE p
Later(p, q) == IF DocLess(q, p) THEN p ELSE q

Caret(r, c) == [start |-> [row |-> r, column |-> c], end |-> <<>>]

WithinContract == InContract(line_lens, selection, max_line_len)

\* the document without the characters between the in-bounds positions p <= q
DocWithout(doc, lens, p, q) ==
    SubSeq(doc, 1, Offset(lens, p)) \o SubSeq(doc, Offset(lens, q) + 1, Len(doc))

\* the document with the sequence ins put at the in-bounds position p
DocWith(doc, lens, p, ins) ==
    SubSeq(doc, 1, Offset(lens, p)) \o ins \o SubSeq(doc, Offset(lens, p) + 1, Len(doc))

\* ---- the calls that can be made on the current editor -----------------------------
RowsAfter(e2) == RowsOf(e2.canvas, e2.line_lens, e2.max_line_len)

DocumentAfter(e2) == ContentOf(e2)

\* ---- claims ----------------------------------------------------------------------------
\* the ordered edges of the current selection, in document order
FirstEdge == Earlier(selection.start, get_cursor_pos(selection))
SecondEdge == Later(selection.start, get_cursor_pos(selection))

CaretPos == selection.start

\* C1: in every state reachable by handle_input, handle_click and handle_drag
\* every row length lies between 0 and max_line_len.
C1_RowLengthsWithinCapacity ==
    \A i \in 1..Len(line_lens) : 0 <= line_lens[i] /\ line_lens[i] <= max_line_len

\* C2: a handle_input call during which insert_char or merge_with_next_row
\* returned false leaves the rows (count, lengths, visible characters) and the
\* selection as they were before the call.
C2_CapacityFailureChangesNothing ==
    LET Unchanged(e2) == (e2.st = "ok" /\ e2.capfail)
                            => (RowsAfter(e2) = Rows /\ e2.selection = selection) IN
    status = "ok"
        => /\ \A key \in Keys, shift \in BOOLEAN, ctrl \in BOOLEAN :
                 Unchanged(handle_input(Editor, key, <<>>, shift, ctrl))
           /\ \A ch \in InputChars, shift \in BOOLEAN, ctrl \in BOOLEAN :
                 Unchanged(handle_input(Editor, "Char", ch, shift, ctrl))
           /\ \A str \in Texts :
                 Unchanged(handle_input(Editor, "Text", str, FALSE, FALSE))

\* C3: in every reachable state both selection endpoints are inside the buffer:
\* row < line_count() and column <= line_len(row).
C3_SelectionInBounds ==
    /\ PosInBuffer(line_lens, selection.start)
    /\ selection.end # None => PosInBuffer(line_lens, selection.end[1])

\* C4: the selection is never a range whose floating end equals its anchor, and
\* Selection::range, Selection::extend and set_selection collapse equal
\* endpoints to a caret.
NonDegenerate(sel) == sel.end = None \/ sel.end[1] # sel.start

SamplePositions == {from_row_column(r, c) : r \in 0..(MaxRows - 1), c \in 0..MaxLineLen}

C4_NoDegenerateRange ==
    /\ NonDegenerate(selection)
    /\ \A p \in SamplePositions :
          /\ NonDegenerate(extend(selection, p))
          /\ \A q \in SamplePositions :
                /\ NonDegenerate(range(p, q))
                /\ NonDegenerate(extend(range(p, q), p))
                /\ NonDegenerate(set_selection(Editor, p, q).selection)

\* C4 witness: a drag has built a range, and dragging back onto its anchor
\* gives a caret.
C4_Witness_DragCollapsesRange ==
    /\ status = "ok"
    /\ last = "Drag"
    /\ is_range(selection)
    /\ handle_drag(Editor, selection.start.column, selection.start.row).selection
          = from_pos(selection.start)

\* C5: for an in-bounds range selection get_first() is the endpoint that comes
\* first in document order and get_second() the other one, whatever row
\* capacity the editor was created with.
C5_FirstIsEarlierEdge ==
    (is_range(selection) /\ WithinContract)
        => /\ get_first(selection) = FirstEdge
           /\ get_second(selection) = SecondEdge
           /\ get_first(selection) # get_second(selection)

\* C6: Del or Backspace on a range selection removes exactly the selected text
\* (the document becomes the text before the first edge followed by the text
\* from the second edge on) and leaves a caret at the first edge.
C6_DeleteRemovesExactlySelection ==
    (status = "ok" /\ is_range(selection) /\ WithinContract)
        => \A key \in {"Del", "Backspace"}, shift \in BOOLEAN, ctrl \in BOOLEAN :
              LET e2 == handle_input(Editor, key, <<>>, shift, ctrl) IN
              /\ e2.st = "ok"
              /\ DocumentAfter(e2) = DocWithout(Document, line_lens, FirstEdge, SecondEdge)
              /\ e2.selection = from_pos(FirstEdge)

\* C7: Char(c) (not ctrl+'e') on a range selection replaces the selected text
\* by c and leaves a caret right after c, at (first.row, first.column + 1).
C7_CharReplacesSelection ==
    (status = "ok" /\ is_range(selection) /\ WithinContract)
        => \A ch \in InputChars, shift \in BOOLEAN, ctrl \in BOOLEAN :
              LET e2 == handle_input(Editor, "Char", ch, shift, ctrl) IN
              /\ e2.st = "ok"
              /\ DocumentAfter(e2)
                    = DocWith(DocWithout(Document, line_lens, FirstEdge, SecondEdge),
                              line_lens, FirstEdge, <<ch>>)
              /\ e2.selection = Caret(FirstEdge.row, FirstEdge.column + 1)

\* C8: Char(c) on a caret: in a row shorter than max_line_len c is inserted at
\* the caret column (the rest of the row shifts right, the caret advances by
\* one, no other row changes); in a row of exactly max_line_len characters
\* nothing changes.
C8_CharAtCaret ==
    (status = "ok" /\ ~is_range(selection) /\ CaretPos.row < Len(line_lens))
        => \A ch \in InputChars, shift \in BOOLEAN, ctrl \in BOOLEAN :
              LET e2 == handle_input(Editor, "Char", ch, shift, ctrl)
                  r == CaretPos.row
                  c == CaretPos.column
                  len == line_lens[r + 1] IN
              IF len < max_line_len
              THEN /\ e2.st = "ok"
                   /\ c <= len
                   /\ RowsAfter(e2) = [Rows EXCEPT ![r + 1] =
                                         SubSeq(@, 1, c) \o <<ch>> \o SubSeq(@, c + 1, len)]
                   /\ e2.selection = Caret(r, c + 1)
              ELSE len = max_line_len
                   => (e2.st = "ok" /\ RowsAfter(e2) = Rows /\ e2.selection = selection)

\* C9: Enter deletes the selected range, if any, and splits the caret row at
\* the caret column: the document gains one row break at the caret (at the
\* first edge of the deleted range), the row count is one more than after the
\* deletion, and the caret goes to column 0 of the new row below.
C9_EnterSplitsRow ==
    (status = "ok" /\ WithinContract)
        => \A shift \in BOOLEAN, ctrl \in BOOLEAN :
              LET e2 == handle_input(Editor, "Enter", <<>>, shift, ctrl)
                  at == IF is_range(selection) THEN FirstEdge ELSE CaretPos
                  doc == IF is_range(selection)
                         THEN DocWithout(Document, line_lens, FirstEdge, SecondEdge)
                         ELSE Document IN
              /\ e2.st = "ok"
              /\ DocumentAfter(e2) = DocWith(doc, line_lens, at, <<"\n">>)
              /\ Len(e2.line_lens) = Len(line_lens) - (SecondEdge.row - FirstEdge.row) + 1
              /\ e2.selection = Caret(at.row + 1, 0)

\* C10: Backspace on a caret without ctrl: at column c > 0 it removes the
\* character at c - 1 and moves the caret there; at column 0 of row r > 0 it
\* appends row r to row r - 1 and puts the caret at the old end of row r - 1
\* when the two rows fit into max_line_len, and else changes nothing; at (0,0)
\* it changes nothing.
C10_BackspaceAtCaret ==
    (status = "ok" /\ ~is_range(selection) /\ CaretPos.row < Len(line_lens))
        => \A shift \in BOOLEAN :
              LET e2 == handle_input(Editor, "Backspace", <<>>, shift, FALSE)
                  r == CaretPos.row
                  c == CaretPos.column
                  len == line_lens[r + 1] IN
              /\ e2.st = "ok"
              /\ IF c > 0
                 THEN /\ c <= len
                      /\ RowsAfter(e2) = [Rows EXCEPT ![r + 1] =
                                            SubSeq(@, 1, c - 1) \o SubSeq(@, c + 1, len)]
                      /\ e2.selection = Caret(r, c - 1)
                 ELSE IF r > 0 /\ line_lens[r] + len <= max_line_len
                 THEN /\ RowsAfter(e2) = SubSeq(Rows, 1, r - 1) \o <<Rows[r] \o Rows[r + 1]>>
                                         \o SubSeq(Rows, r + 2, Len(Rows))
                      /\ e2.selection = Caret(r - 1, line_lens[r])
                 ELSE RowsAfter(e2) = Rows /\ e2.selection = selection

\* C11: Del on a caret: before the end of the row and without ctrl it removes
\* exactly the character at the caret; at the end of a row that is not the last
\* it appends the next row when the two rows fit into max_line_len and else
\* changes nothing (with or without ctrl); at the end of the last row it
\* changes nothing.  The selection is unchanged in all these cases.
C11_DelAtCaret ==
    (status = "ok" /\ ~is_range(selection) /\ CaretPos.row < Len(line_lens))
        => \A shift \in BOOLEAN, ctrl \in BOOLEAN :
              LET e2 == handle_input(Editor, "Del", <<>>, shift, ctrl)
                  r == CaretPos.row
                  c == CaretPos.column
                  len == line_lens[r + 1] IN
              IF c < len
              THEN ~ctrl
                   => /\ e2.st = "ok"
                      /\ RowsAfter(e2) = [Rows EXCEPT ![r + 1] =
                                            SubSeq(@, 1, c) \o SubSeq(@, c + 2, len)]
                      /\ e2.selection = selection
              ELSE c = len
                   => /\ e2.st = "ok"
                      /\ e2.selection = selection
                      /\ IF r + 1 < Len(line_lens) /\ len + line_lens[r + 2] <= max_line_len
                         THEN RowsAfter(e2) = SubSeq(Rows, 1, r) \o <<Rows[r + 1] \o Rows[r + 2]>>
                                              \o SubSeq(Rows, r + 3, Len(Rows))
                         ELSE RowsAfter(e2) = Rows

\* all visible characters of the rows, in row order
RECURSIVE Flat(_)
Flat(rows) == IF rows = <<>> THEN <<>> ELSE Head(rows) \o Flat(Tail(rows))

\* number of visible characters before pos
RECURSIVE CharsBefore(_, _)
CharsBefore(lens, pos) ==
    IF pos.row = 0 THEN pos.column
    ELSE lens[pos.row] + CharsBefore(lens, [pos EXCEPT !.row = @ - 1])

Without(str, dropped) == SelectSeq(str, LAMBDA ch : ch \notin dropped)

\* the former characters [c, len) of the caret row
CaretRemainder == SubSeq(Rows[CaretPos.row + 1], CaretPos.column + 1, line_lens[CaretPos.row + 1])

\* C12: Text(s) on a caret loses no existing character: the visible characters
\* of the document afterwards are those before with the characters of s other
\* than '\r' and '\n' inserted at the caret; the caret ends right after the
\* last inserted character and the former rest of the caret row follows it.
C12_TextLosesNothing ==
    (status = "ok" /\ ~is_range(selection) /\ CaretPos.row < Len(line_lens))
        => \A str \in Texts :
              LET e2 == handle_input(Editor, "Text", str, FALSE, FALSE)
                  ins == Without(str, {"\r", "\n"})
                  off == CharsBefore(line_lens, CaretPos)
                  flat == Flat(Rows)
                  after == Flat(RowsAfter(e2))
                  caret == off + Len(ins) IN
              /\ e2.st = "ok"
              /\ after = SubSeq(flat, 1, off) \o ins \o SubSeq(flat, off + 1, Len(flat))
              /\ ~is_range(e2.selection)
              /\ e2.selection.start.row < Len(e2.line_lens)
              /\ CharsBefore(e2.line_lens, e2.selection.start) = caret
              /\ SubSeq(after, caret + 1, caret + Len(CaretRemainder)) = CaretRemainder

\* the rows that a stream of characters makes when it is written after the
\* row content cur: '\n' ends the row, a character that finds the row full
\* starts a new one
RECURSIVE TextLayout(_, _, _, _)
TextLayout(done, cur, stream, max) ==
    IF stream = <<>> THEN Append(done, cur)
    ELSE IF Head(stream) = "\n" THEN TextLayout(Append(done, cur), <<>>, Tail(stream), max)
    ELSE IF Len(cur) = max THEN TextLayout(Append(done, cur), <<Head(stream)>>, Tail(stream), max)
    ELSE TextLayout(done, Append(cur, Head(stream)), Tail(stream), max)

\* C13: Text(s) row structure: '\r' is dropped, '\n' ends the current row and
\* starts a new row directly below, a character that would be written at
\* column max_line_len goes to column 0 of a new row below; afterwards no row
\* is longer than max_line_len and the rows that were below the caret row are
\* unchanged, shifted down by the number of inserted rows.
C13_TextRowStructure ==
    (status = "ok" /\ ~is_range(selection) /\ PosInBuffer(line_lens, CaretPos))
        => \A str \in Texts :
              LET e2 == handle_input(Editor, "Text", str, FALSE, FALSE)
                  r == CaretPos.row
                  laid == TextLayout(<<>>, SubSeq(Rows[r + 1], 1, CaretPos.column),
                                     Without(str, {"\r"}) \o CaretRemainder, max_line_len) IN
              /\ e2.st = "ok"
              /\ RowsAfter(e2) = SubSeq(Rows, 1, r) \o laid \o SubSeq(Rows, r + 2, Len(Rows))
              /\ \A i \in 1..Len(e2.line_lens) : e2.line_lens[i] <= max_line_len

\* a fresh editor with the row capacity of the current one, given the content
Reloaded(text) == set_content(new(max_line_len), text)

\* C14: content round trip: set_content(get_content()) on a fresh editor with
\* the same max_line_len gives the same rows (count, lengths, characters) and
\* the same get_content(), and a second round trip changes nothing.
C14_ContentRoundTrip ==
    (status = "ok" /\ lines_ok(Editor))
        => LET content == get_content(Editor)
               f == Reloaded(content) IN
           /\ f.st = "ok"
           /\ lines_ok(f)
           /\ f.line_lens = line_lens
           /\ RowsAfter(f) = Rows
           /\ get_content(f) = content
           /\ RowsAfter(Reloaded(get_content(f))) = RowsAfter(f)

\* C15: set_content(text) clears all rows: the rows afterwards are those of a
\* fresh editor with the same max_line_len given the same text, whatever the
\* editor held before, and the selection is a caret at (0,0).
C15_SetContentReplacesAll ==
    status = "ok"
        => \A text \in Texts :
              LET e2 == set_content(Editor, text)
                  f == Reloaded(text) IN
              /\ e2.st = "ok"
              /\ e2.line_lens = f.line_lens
              /\ RowsAfter(e2) = RowsAfter(f)
              /\ e2.selection = Caret(0, 0)

\* the row an Up or a Down input moves the cursor to, -1 when there is none
VerticalTarget(lens, sel, key) ==
    LET row == get_cursor_pos(sel).row IN
    IF key = "Up" THEN row - 1
    ELSE IF row + 1 < Len(lens) THEN row + 1 ELSE -1

\* the cursor is on row t at the sticky column clamped to the length of row t
AtStickyColumn(lens, sel, sticky, t) ==
    get_cursor_pos(sel) = from_row_column(t, Min(sticky, lens[t + 1]))

\* C16: sticky column: an Up or a Down input that has a target row t (with or
\* without shift or ctrl) leaves the cursor at (t, min(stickyColumn,
\* line_len(t))) and leaves stickyColumn unchanged, so that a second
\* consecutive Up or Down input again lands on the same stickyColumn, clamped
\* to the length of the row it arrives on.
C16_StickyColumn ==
    (status = "ok" /\ get_cursor_pos(selection).row < Len(line_lens))
        => \A key \in {"Up", "Down"} : \A shift \in BOOLEAN : \A ctrl \in BOOLEAN :
              LET t == VerticalTarget(line_lens, selection, key)
                  e2 == handle_input(Editor, key, <<>>, shift, ctrl) IN
              t >= 0 =>
                 /\ e2.st = "ok"
                 /\ AtStickyColumn(line_lens, e2.selection, last_column_index, t)
                 /\ e2.last_column_index = last_column_index
                 /\ e2.line_lens = line_lens
                 /\ \A key2 \in {"Up", "Down"} : \A shift2 \in BOOLEAN :
                       LET t2 == VerticalTarget(line_lens, e2.selection, key2)
                           e3 == handle_input(e2, key2, <<>>, shift2, ctrl) IN
                       t2 >= 0 =>
                          /\ e3.st = "ok"
                          /\ AtStickyColumn(line_lens, e3.selection, last_column_index, t2)
                          /\ e3.last_column_index = last_column_index

\* the cursor came by a vertical move onto a row shorter than the sticky
\* column, and the opposite vertical move brings it back to the sticky column
C16_Witness_ReturnsToStickyColumn ==
    /\ status = "ok"
    /\ last \in {"Up", "Down"}
    /\ get_cursor_pos(selection).row < Len(line_lens)
    /\ get_cursor_pos(selection).column < last_column_index
    /\ \E key \in {"Up", "Down"} :
          LET e2 == handle_input(Editor, key, <<>>, FALSE, FALSE) IN
          /\ VerticalTarget(line_lens, selection, key) >= 0
          /\ e2.st = "ok"
          /\ get_cursor_pos(e2.selection).column = last_column_index

\* the selection sel2 is what sel becomes when the cursor goes to pos: with
\* shift the anchor stays and the cursor is at pos, without shift a caret at pos
MovedTo(sel, sel2, pos, shift) ==
    IF shift
    THEN /\ sel2.start = sel.start
         /\ get_cursor_pos(sel2) = pos
         /\ is_range(sel2) <=> pos # sel.start
    ELSE sel2 = from_pos(pos)

\* C17: vertical clamping: Up with the cursor on row 0 moves the cursor to
\* column 0 of row 0 and Down with the cursor on the last row moves it to the
\* end of that row; with shift the selection is extended to that position,
\* without shift it becomes a caret there.
C17_VerticalClamping ==
    (status = "ok" /\ get_cursor_pos(selection).row < Len(line_lens))
        => \A shift \in BOOLEAN : \A ctrl \in BOOLEAN :
              LET cur == get_cursor_pos(selection)
                  up == handle_input(Editor, "Up", <<>>, shift, ctrl)
                  down == handle_input(Editor, "Down", <<>>, shift, ctrl) IN
              /\ cur.row = 0 =>
                    /\ up.st = "ok"
                    /\ MovedTo(selection, up.selection, from_row_column(0, 0), shift)
              /\ cur.row = Len(line_lens) - 1 =>
                    /\ down.st = "ok"
                    /\ MovedTo(selection, down.selection,
                               from_row_column(cur.row, line_lens[cur.row + 1]), shift)

\* shift+Up in a one-row buffer has extended the selection from an anchor
\* inside the row to column 0
C17_Witness_ShiftUpOnRowZero ==
    /\ status = "ok"
    /\ last = "Up"
    /\ Len(line_lens) = 1
    /\ is_range(selection)
    /\ selection.start.column > 0
    /\ get_cursor_pos(selection) = from_row_column(0, 0)

\* C18: Left or Right without shift on a range selection collapses it to a
\* caret at the first edge (Left) or the second edge (Right) of the range in
\* document order, whichever endpoint is the anchor and with or without ctrl;
\* the sticky column becomes the column of that caret and the rows are
\* unchanged.
C18_HorizontalCollapse ==
    (status = "ok" /\ is_range(selection)
        /\ PosInBuffer(line_lens, selection.start)
        /\ PosInBuffer(line_lens, get_cursor_pos(selection)))
        => \A ctrl \in BOOLEAN :
              LET left == handle_input(Editor, "Left", <<>>, FALSE, ctrl)
                  right == handle_input(Editor, "Right", <<>>, FALSE, ctrl) IN
              /\ left.st = "ok"
              /\ left.selection = from_pos(FirstEdge)
              /\ left.last_column_index = FirstEdge.column
              /\ RowsAfter(left) = Rows
              /\ right.st = "ok"
              /\ right.selection = from_pos(SecondEdge)
              /\ right.last_column_index = SecondEdge.column
              /\ RowsAfter(right) = Rows

\* where Right takes a caret at pos when no modifier is held
RightOf(lens, pos) ==
    IF pos.column < lens[pos.row + 1] THEN from_row_column(pos.row, pos.column + 1)
    ELSE IF pos.row + 1 < Len(lens) THEN from_row_column(pos.row + 1, 0)
    ELSE pos

\* where Left takes a caret at pos when no modifier is held
LeftOf(lens, pos) ==
    IF pos.column > 0 THEN from_row_column(pos.row, pos.column - 1)
    ELSE IF pos.row > 0 THEN from_row_column(pos.row - 1, lens[pos.row])
    ELSE pos

\* C19: Left / Right on a caret without modifiers: Right moves one column
\* right, or from the end of row r to (r+1, 0), or stays at the end of the last
\* row; Left moves one column left, or from column 0 of row r > 0 to the end of
\* row r-1, or stays at (0,0). The buffer is unchanged and the sticky column
\* becomes the new caret column.
C19_HorizontalStep ==
    (status = "ok" /\ ~is_range(selection) /\ PosInBuffer(line_lens, CaretPos))
        => LET left == handle_input(Editor, "Left", <<>>, FALSE, FALSE)
               right == handle_input(Editor, "Right", <<>>, FALSE, FALSE) IN
           /\ left.st = "ok"
           /\ left.selection = from_pos(LeftOf(line_lens, CaretPos))
           /\ left.last_column_index = LeftOf(line_lens, CaretPos).column
           /\ left.canvas = canvas /\ left.line_lens = line_lens
           /\ right.st = "ok"
           /\ right.selection = from_pos(RightOf(line_lens, CaretPos))
           /\ right.last_column_index = RightOf(line_lens, CaretPos).column
           /\ right.canvas = canvas /\ right.line_lens = line_lens

\* Right has taken the caret from the end of row 0 to column 0 of row 1, and a
\* Left from there takes it back to the end of row 0
C19_Witness_RightCrossesRows ==
    /\ status = "ok"
    /\ last = "Right"
    /\ Len(line_lens) >= 2
    /\ line_lens[1] > 0
    /\ selection = from_pos(from_row_column(1, 0))
    /\ last_column_index = 0
    /\ handle_input(Editor, "Left", <<>>, FALSE, FALSE).selection
          = from_pos(from_row_column(0, line_lens[1]))

\* C20: Home / End move the cursor to column 0 / column line_len(row) of the
\* row of the current cursor position (the floating end of a range); with shift
\* the selection is extended from the unchanged anchor to that position,
\* without shift it becomes a caret there; the sticky column becomes the new
\* cursor column.
C20_HomeEnd ==
    (status = "ok" /\ get_cursor_pos(selection).row < Len(line_lens))
        => \A shift \in BOOLEAN : \A ctrl \in BOOLEAN :
              LET cur == get_cursor_pos(selection)
                  home == handle_input(Editor, "Home", <<>>, shift, ctrl)
                  end == handle_input(Editor, "End", <<>>, shift, ctrl) IN
              /\ home.st = "ok"
              /\ MovedTo(selection, home.selection, from_row_column(cur.row, 0), shift)
              /\ home.last_column_index = 0
              /\ end.st = "ok"
              /\ MovedTo(selection, end.selection,
                         from_row_column(cur.row, line_lens[cur.row + 1]), shift)
              /\ end.last_column_index = line_lens[cur.row + 1]

\* shift+End has extended a selection anchored on another row to the end of
\* the cursor's non-empty row, and the sticky column is that row's length
C20_Witness_ShiftEndOnCursorRow ==
    /\ status = "ok"
    /\ last = "End"
    /\ is_range(selection)
    /\ get_cursor_pos(selection).row < Len(line_lens)
    /\ selection.start.row # get_cursor_pos(selection).row
    /\ line_lens[get_cursor_pos(selection).row + 1] > 0
    /\ line_lens[selection.start.row + 1] # line_lens[get_cursor_pos(selection).row + 1]
    /\ get_cursor_pos(selection).column = line_lens[get_cursor_pos(selection).row + 1]
    /\ last_column_index = get_cursor_pos(selection).column

\* the buffer, the selection and the sticky column of two editor values agree
SameEditor(e1, e2) ==
    /\ e1.st = e2.st
    /\ e1.canvas = e2.canvas
    /\ e1.line_lens = e2.line_lens
    /\ e1.selection = e2.selection
    /\ e1.last_column_index = e2.last_column_index

\* C21: Home and End are idempotent: for each modifier combination, Home
\* applied twice gives the same buffer, selection and sticky column as Home
\* applied once, and likewise End.
C21_HomeEndIdempotent ==
    (status = "ok" /\ get_cursor_pos(selection).row < Len(line_lens))
        => \A key \in {"Home", "End"} : \A shift \in BOOLEAN : \A ctrl \in BOOLEAN :
              LET once == handle_input(Editor, key, <<>>, shift, ctrl)
                  twice == handle_input(once, key, <<>>, shift, ctrl) IN
              /\ once.st = "ok"
              /\ SameEditor(once, twice)

\* shift+Home has moved the floating end of a range to column 0 of a non-empty
\* row away from the anchor, and a second shift+Home changes nothing
C21_Witness_SecondHomeChangesNothing ==
    /\ status = "ok"
    /\ last = "Home"
    /\ is_range(selection)
    /\ get_cursor_pos(selection).row < Len(line_lens)
    /\ line_lens[get_cursor_pos(selection).row + 1] > 0
    /\ get_cursor_pos(selection).column = 0
    /\ SameEditor(Editor, handle_input(Editor, "Home", <<>>, TRUE, FALSE))

\* n times the same key with shift held
RECURSIVE ShiftRepeat(_, _, _)
ShiftRepeat(e, key, n) ==
    IF n = 0 THEN e ELSE ShiftRepeat(handle_input(e, key, <<>>, TRUE, FALSE), key, n - 1)

\* the anchor of sel2 is the anchor of sel, and sel2 is a caret when its
\* floating end is on the anchor
AnchorKept(sel, sel2) ==
    /\ sel2.start = sel.start
    /\ get_cursor_pos(sel2) = sel.start => sel2 = from_pos(sel.start)

\* C22: shift-extension keeps the anchor: after every shift+{Left, Right, Up,
\* Down, Home, End} that returns and after every handle_drag the anchor is the
\* anchor of before,
\* and when the floating end is back on the anchor the selection is a caret
\* there: n shift+Left followed by n shift+Right inside one row give a caret
\* at the anchor.
C22_ShiftKeepsAnchor ==
    (status = "ok" /\ PosInBuffer(line_lens, selection.start)
        /\ PosInBuffer(line_lens, get_cursor_pos(selection)))
        => /\ \A key \in {"Left", "Right", "Up", "Down", "Home", "End"} : \A ctrl \in BOOLEAN :
                 LET e2 == handle_input(Editor, key, <<>>, TRUE, ctrl) IN
                 e2.st = "ok" => AnchorKept(selection, e2.selection)
           /\ \A x \in 0..MaxClick : \A y \in 0..MaxClick :
                 LET e2 == handle_drag(Editor, x, y) IN
                 /\ e2.st = "ok"
                 /\ AnchorKept(selection, e2.selection)
           /\ ~is_range(selection) =>
                 \A n \in 1..Min(CaretPos.column, MaxLineLen) :
                    LET there == ShiftRepeat(Editor, "Left", n)
                        back == ShiftRepeat(there, "Right", n) IN
                    /\ there.selection = range(CaretPos, with_column(CaretPos, CaretPos.column - n))
                    /\ back.selection = from_pos(CaretPos)

\* shift+Right has brought the floating end back onto an anchor that is not at
\* the start of its row: the selection is a caret, and a shift+Left from it
\* opens a range from the same anchor
C22_Witness_BackOnAnchor ==
    /\ status = "ok"
    /\ last = "Right"
    /\ ~is_range(selection)
    /\ PosInBuffer(line_lens, CaretPos)
    /\ CaretPos.column > 0
    /\ last_column_index = CaretPos.column
    /\ LET e2 == handle_input(Editor, "Left", <<>>, TRUE, FALSE) IN
       /\ is_range(e2.selection)
       /\ e2.selection.start = CaretPos
       /\ handle_input(e2, "Right", <<>>, TRUE, FALSE).selection = selection

\* the token classes of the word jumps
ClassOf(ch) ==
    IF is_ascii_whitespace(ch) THEN "space"
    ELSE IF IsWordChar(ch) THEN "word"
    ELSE IF IsQuoteChar(ch) THEN "quote"
    ELSE "symbol"

\* the end of the maximal run of characters of one class that starts at column s
RunEndsAt(row, s, class) ==
    CHOOSE j \in s..Len(row) :
        /\ \A i \in (s + 1)..j : ClassOf(row[i]) = class
        /\ j = Len(row) \/ ClassOf(row[j + 1]) # class

\* the start of the maximal run of characters of one class that ends at column s
RunStartsAt(row, s, class) ==
    CHOOSE j \in 0..s :
        /\ \A i \in (j + 1)..s : ClassOf(row[i]) = class
        /\ j = 0 \/ ClassOf(row[j]) # class

\* one token forward from column s: a double quote alone, else a maximal run
TokenEnd(row, s) ==
    IF s >= Len(row) THEN s
    ELSE IF ClassOf(row[s + 1]) = "quote" THEN s + 1
    ELSE RunEndsAt(row, s, ClassOf(row[s + 1]))

\* one token backward from column s
TokenStart(row, s) ==
    IF s = 0 THEN 0
    ELSE IF ClassOf(row[s]) = "quote" THEN s - 1
    ELSE RunStartsAt(row, s, ClassOf(row[s]))

\* IgnoreWhitespaces: every blank met first is skipped, then one token is passed
WordRight(row, c) == TokenEnd(row, RunEndsAt(row, c, "space"))
WordLeft(row, c) == TokenStart(row, RunStartsAt(row, c, "space"))

\* the text of the row the cursor is on
CursorRow == Rows[get_cursor_pos(selection).row + 1]

\* C23: ctrl+Right with the cursor before the end of its row and ctrl+Left
\* with the cursor after the start of its row move the cursor within the row:
\* every blank met first is skipped, then exactly one token is passed (a
\* maximal run of word characters, one double quote, or a maximal run of other
\* non-blank characters).  The buffer is unchanged; with shift the anchor
\* stays and the selection runs from the anchor to that column, without shift
\* a caret goes there.
C23_CtrlWordMove ==
    WithinContract
        => \A shift \in BOOLEAN :
              LET cur == get_cursor_pos(selection)
                  right == handle_input(Editor, "Right", <<>>, shift, TRUE)
                  left == handle_input(Editor, "Left", <<>>, shift, TRUE) IN
              /\ (cur.column < line_lens[cur.row + 1] /\ (shift \/ ~is_range(selection))) =>
                    /\ right.st = "ok"
                    /\ MovedTo(selection, right.selection,
                               with_column(cur, WordRight(CursorRow, cur.column)), shift)
                    /\ right.canvas = canvas /\ right.line_lens = line_lens
              /\ (cur.column > 0 /\ (shift \/ ~is_range(selection))) =>
                    /\ left.st = "ok"
                    /\ MovedTo(selection, left.selection,
                               with_column(cur, WordLeft(CursorRow, cur.column)), shift)
                    /\ left.canvas = canvas /\ left.line_lens = line_lens

\* ctrl+Right has crossed a blank and the token after it: the caret stands
\* behind a non-blank character, two or more columns into a row that starts
\* with a blank, and ctrl+Left from there goes back over that token only
C23_Witness_CrossedBlankAndToken ==
    /\ status = "ok"
    /\ last = "Right"
    /\ WithinContract
    /\ ~is_range(selection)
    /\ CaretPos.column >= 2
    /\ ClassOf(CursorRow[1]) = "space"
    /\ ClassOf(CursorRow[CaretPos.column]) # "space"
    /\ last_column_index = CaretPos.column
    /\ handle_input(Editor, "Left", <<>>, FALSE, TRUE).selection
          = from_pos(with_column(CaretPos, WordLeft(CursorRow, CaretPos.column)))
    /\ WordLeft(CursorRow, CaretPos.column) > 0

\* the selection is a caret directly behind a run of blanks that follows a word
CaretAfterBlanksAfterWord ==
    /\ status = "ok"
    /\ WithinContract
    /\ ~is_range(selection)
    /\ CaretPos.column > 0
    /\ ClassOf(CursorRow[CaretPos.column]) = "space"
    /\ RunStartsAt(CursorRow, CaretPos.column, "space") > 0
    /\ ClassOf(CursorRow[RunStartsAt(CursorRow, CaretPos.column, "space")]) = "word"

\* the column of the caret after ctrl+Left
CtrlLeftColumn == handle_input(Editor, "Left", <<>>, FALSE, TRUE).selection.start.column

\* C24 as stated: ctrl+Left with the caret directly behind a run of blanks
\* that follows a word lands directly behind that word, at the start of the run
\* of blanks (column 12 in "abcdefghijkl mnopqrstuvwxyz" from column 13).
C24_CtrlLeftStopsBehindWord ==
    CaretAfterBlanksAfterWord
        => CtrlLeftColumn = RunStartsAt(CursorRow, CaretPos.column, "space")

\* C24 amended: ctrl+Left with the caret directly behind a run of blanks that
\* follows a word passes the blanks and the word and lands at the start of
\* that word (column 0 in "abcdefghijkl mnopqrstuvwxyz" from column 13); the
\* selection is a caret there.
C24_CtrlLeftPassesWord ==
    CaretAfterBlanksAfterWord
        => LET e2 == handle_input(Editor, "Left", <<>>, FALSE, TRUE)
               blanks == RunStartsAt(CursorRow, CaretPos.column, "space") IN
           /\ e2.st = "ok"
           /\ e2.selection = from_pos(with_column(CaretPos, RunStartsAt(CursorRow, blanks, "word")))
           /\ CursorRow = TestRow /\ CaretPos.column = 13 => e2.selection = Caret(0, 0)

\* ctrl+Left has taken the caret of the test row from column 13 to column 0
C24_Witness_TestRowCaretAtStart ==
    /\ status = "ok"
    /\ last = "Left"
    /\ Rows = <<TestRow>>
    /\ selection = Caret(0, 0)

\* the rows with the characters [from, to) of row r removed
RowsWithout(rows, r, from, to) ==
    [rows EXCEPT ![r + 1] = SubSeq(@, 1, from) \o SubSeq(@, to + 1, Len(@))]

\* C25: ctrl+Del on a caret at column c before the end of its row deletes
\* exactly the characters [c, j) of that row, j being the end of the one token
\* that starts at c (a run of blanks alone, a run of word characters, one
\* double quote, or a run of symbols); at least one character is deleted, the
\* caret does not move and no other row changes.
C25_CtrlDelDeletesToken ==
    (status = "ok" /\ WithinContract /\ ~is_range(selection)
        /\ CaretPos.column < line_lens[CaretPos.row + 1])
        => \A shift \in BOOLEAN :
              LET e2 == handle_input(Editor, "Del", <<>>, shift, TRUE)
                  j == TokenEnd(CursorRow, CaretPos.column) IN
              /\ j > CaretPos.column
              /\ e2.st = "ok"
              /\ RowsAfter(e2) = RowsWithout(Rows, CaretPos.row, CaretPos.column, j)
              /\ e2.selection = selection

\* ctrl+Del has deleted the word behind the caret of the test row: the row ends
\* at the caret, directly behind the blank
C25_Witness_WordDeleted ==
    /\ status = "ok"
    /\ last = "Del"
    /\ Rows = <<SubSeq(TestRow, 1, 13)>>
    /\ selection = Caret(0, 13)

\* C26: ctrl+Backspace on a caret at column c > 0 deletes exactly the
\* characters [j, c) of its row, j being the backward word jump from c that
\* skips the blanks directly before the caret and passes the one token before
\* them, and leaves a caret at (row, j); at column 0 it does what Backspace
\* without ctrl does.
C26_CtrlBackspaceDeletesToken ==
    (status = "ok" /\ WithinContract /\ ~is_range(selection))
        => \A shift \in BOOLEAN :
              LET e2 == handle_input(Editor, "Backspace", <<>>, shift, TRUE)
                  plain == handle_input(Editor, "Backspace", <<>>, shift, FALSE)
                  j == WordLeft(CursorRow, CaretPos.column) IN
              IF CaretPos.column > 0
              THEN /\ j < CaretPos.column
                   /\ e2.st = "ok"
                   /\ RowsAfter(e2) = RowsWithout(Rows, CaretPos.row, j, CaretPos.column)
                   /\ e2.selection = from_pos(with_column(CaretPos, j))
              ELSE SameEditor(e2, plain)

\* ctrl+Backspace has deleted the blank and the word before the caret of the
\* test row: the row starts at the caret with the second word
C26_Witness_BlankAndWordDeleted ==
    /\ status = "ok"
    /\ last = "Backspace"
    /\ Rows = <<SubSeq(TestRow, 14, Len(TestRow))>>
    /\ selection = Caret(0, 0)

\* the start / the end of the token that touches column c from the left / the
\* right; c itself when a blank or the end of the row is there
TouchingStart(row, c) ==
    IF c > 0 /\ ClassOf(row[c]) # "space" THEN TokenStart(row, c) ELSE c

TouchingEnd(row, c) ==
    IF c < Len(row) /\ ClassOf(row[c + 1]) # "space" THEN TokenEnd(row, c) ELSE c

\* C27: Char('e') with ctrl on a caret at (r, c) sets the selection to the
\* range anchored at the start of the token touching the caret from the left
\* and ending at the end of the token touching it from the right, a blank next
\* to the caret never being included; when there is no such token on either
\* side the selection stays a caret.  No character is inserted and the buffer
\* is unchanged.
C27_ExpandCaretToToken ==
    (status = "ok" /\ WithinContract /\ ~is_range(selection))
        => \A shift \in BOOLEAN :
              LET e2 == handle_input(Editor, "Char", "e", shift, TRUE)
                  from == TouchingStart(CursorRow, CaretPos.column)
                  to == TouchingEnd(CursorRow, CaretPos.column) IN
              /\ e2.st = "ok"
              /\ e2.selection.start = with_column(CaretPos, from)
              /\ e2.selection.end = IF from = to THEN None ELSE Some(with_column(CaretPos, to))
              /\ \A i \in (from + 1)..to : ClassOf(CursorRow[i]) # "space"
              /\ e2.canvas = canvas /\ e2.line_lens = line_lens

\* Char('e') with ctrl has expanded the caret of the test row, which stood
\* directly behind the blank, to the second word and not over the blank
C27_Witness_SecondWordSelected ==
    /\ status = "ok"
    /\ last = "ExpandWord"
    /\ Rows = <<TestRow>>
    /\ selection = range(from_row_column(0, 13), from_row_column(0, Len(TestRow)))

\* C28: Char('e') with ctrl on a range with edges first <= second sets the
\* selection to the range from (first.row, the backward word jump from first)
\* to (second.row, the forward word jump from second), each jump skipping
\* blanks and passing one token on the row of its own edge; the new range
\* contains the old one and both of its endpoints are in bounds, for ranges
\* over several rows and for either direction of anchor and floating end.
C28_ExpandRangeOutward ==
    (status = "ok" /\ WithinContract /\ is_range(selection))
        => LET e2 == handle_input(Editor, "Char", "e", FALSE, TRUE)
               from == with_column(FirstEdge,
                                   WordLeft(Rows[FirstEdge.row + 1], FirstEdge.column))
               to == with_column(SecondEdge,
                                 WordRight(Rows[SecondEdge.row + 1], SecondEdge.column)) IN
           /\ e2.st = "ok"
           /\ e2.selection = range(from, to)
           /\ PosInBuffer(line_lens, e2.selection.start)
           /\ PosInBuffer(line_lens, get_cursor_pos(e2.selection))
           /\ ~DocLess(FirstEdge, e2.selection.start)
           /\ ~DocLess(get_cursor_pos(e2.selection), SecondEdge)
           /\ e2.canvas = canvas /\ e2.line_lens = line_lens

\* C29: Char('w') with ctrl is the expand-selection-to-word command: on a
\* caret it selects the token touching the caret (anchor at its start,
\* floating end at its end), on an empty row it leaves the caret alone, on a
\* range inside one row it grows the selection outward over the blanks and the
\* token on both sides; it never inserts the character 'w' or changes the
\* buffer.
C29_CtrlWExpandsToWord ==
    (status = "ok" /\ WithinContract /\ FirstEdge.row = SecondEdge.row)
        => LET e2 == handle_input(Editor, "Char", "w", FALSE, TRUE)
               row == Rows[FirstEdge.row + 1]
               from == IF is_range(selection) THEN WordLeft(row, FirstEdge.column)
                       ELSE TouchingStart(row, FirstEdge.column)
               to == IF is_range(selection) THEN WordRight(row, SecondEdge.column)
                     ELSE TouchingEnd(row, SecondEdge.column) IN
           /\ e2.st = "ok"
           /\ e2.canvas = canvas /\ e2.line_lens = line_lens
           /\ e2.selection = range(with_column(FirstEdge, from), with_column(FirstEdge, to))

\* the text between two positions p <= q of the document: the rest of p's row,
\* every row in between and the start of q's row, joined by '\n'
RECURSIVE TextBetween(_, _, _)
TextBetween(rows, p, q) ==
    IF p.row = q.row THEN SubSeq(rows[p.row + 1], p.column + 1, q.column)
    ELSE SubSeq(rows[p.row + 1], p.column + 1, Len(rows[p.row + 1])) \o <<"\n">>
            \o TextBetween(rows, from_row_column(p.row + 1, 0), q)

\* C30: get_selected_text() returns None exactly when the selection is a
\* caret; for a range it returns the characters from the first edge to the
\* end of its row, then '\n' and the whole row for every row between the
\* edges, then '\n' and the characters before the second edge on its row (only
\* the characters between the two columns when both edges are on one row),
\* whichever edge is the anchor.
C30_SelectedText ==
    (status = "ok" /\ WithinContract)
        => LET got == get_selected_text(Editor) IN
           /\ got.st = "ok"
           /\ got.text = None <=> ~is_range(selection)
           /\ is_range(selection) => got.text = Some(TextBetween(Rows, FirstEdge, SecondEdge))

\* the position a click or a drag at (x, y) resolves to
Clamped(lens, x, y) ==
    LET row == Min(y, Len(lens) - 1) IN from_row_column(row, Min(x, lens[row + 1]))

\* C31: for all x and y, handle_click(x, y) sets the selection to a caret at
\* (min(y, line_count() - 1), min(x, line_len of that row)) and handle_drag(x,
\* y) extends the selection to that position with the anchor unchanged, a
\* caret when the position is the anchor; neither call changes the buffer.
C31_ClickAndDragClamp ==
    status = "ok"
        => \A x \in 0..(MaxLineLen + 1) : \A y \in 0..(MaxRows + 1) :
              LET click == handle_click(Editor, x, y)
                  drag == handle_drag(Editor, x, y)
                  pos == Clamped(line_lens, x, y) IN
              /\ click.st = "ok"
              /\ click.selection = from_pos(pos)
              /\ click.canvas = canvas /\ click.line_lens = line_lens
              /\ drag.st = "ok"
              /\ drag.selection.start = selection.start
              /\ drag.selection.end = IF pos = selection.start THEN None ELSE Some(pos)
              /\ drag.canvas = canvas /\ drag.line_lens = line_lens

\* a drag has put the floating end at the end of the last row, which is
\* shorter than the largest x, from an anchor on the first row; dragging beyond
\* the row and the buffer gives the same selection
C31_Witness_DragClampedToLastRow ==
    /\ status = "ok"
    /\ last = "Drag"
    /\ Len(line_lens) = 2
    /\ line_lens[2] < MaxClick
    /\ selection.start.row = 0
    /\ selection.end = Some(from_row_column(1, line_lens[2]))
    /\ handle_drag(Editor, MaxClick, MaxClick).selection = selection

\* `now` is at least BLINK_INTERVAL after `then`
IntervalPassed(then, now) ==
    ~U32AddOverflows(then, BLINK_INTERVAL) /\ U32Geq(now, U32Add(then, BLINK_INTERVAL))

\* C32: handle_tick(now) returns true exactly when it toggled show_cursor, it
\* toggles exactly when now >= next_blink_at and then sets next_blink_at to
\* now + 500; with a clock that does not go back two consecutive toggles are
\* at least 500 apart, and a call less than 500 after the latest toggle
\* returns false and leaves show_cursor and next_blink_at unchanged.
C32_BlinkEvery500 ==
    status = "ok"
        => \A now \in TickTimes :
              LET t == handle_tick(Blinker, now) IN
              U32Geq(now, clock) =>
                 /\ t.st = "ok"
                 /\ t.ret <=> t.show_cursor # show_cursor
                 /\ t.ret <=> U32Geq(now, next_blink_at)
                 /\ t.ret => IntervalPassed(now, t.next_blink_at)
                             /\ t.next_blink_at = U32Add(now, BLINK_INTERVAL)
                 /\ toggled_at # None =>
                       IF IntervalPassed(toggled_at[1], now)
                       THEN t.ret
                       ELSE /\ ~t.ret
                            /\ t.show_cursor = show_cursor
                            /\ t.next_blink_at = next_blink_at

\* C33: word jumps stay inside one row: on the row of the cursor, for every
\* start column c with 0 <= c <= len and every jump mode, jump_word_forward returns a column
\* in [c, len] and jump_word_backward a column in [0, c]; in IgnoreWhitespaces
\* and ConsiderWhitespaces modes the forward result is greater than c when
\* c < len and the backward result smaller than c when c > 0; no cell at or
\* beyond len is read: the results do not depend on what those cells hold.
C33_WordJumpsStayInRow ==
    (status = "ok" /\ WithinContract)
        => LET r == get_cursor_pos(selection).row
               line == get_line_chars(Editor, r)
               len == line_lens[r + 1] IN
           \A c \in 0..len : \A mode \in JumpModes :
              LET fwd == scan_forward(line, len, c, mode)
                  bwd == scan_backward(line, c, mode) IN
              /\ jump_word_forward(Editor, from_row_column(r, c), mode) = fwd
              /\ jump_word_backward(Editor, from_row_column(r, c), mode) = bwd
              /\ c <= fwd /\ fwd <= len
              /\ 0 <= bwd /\ bwd <= c
              /\ mode # BlockOnWhitespace =>
                    /\ c < len => fwd > c
                    /\ c > 0 => bwd < c
              /\ \A ch \in WordChars :
                    LET stale == SubSeq(line, 1, len) \o [i \in 1..(Len(line) - len) |-> ch] IN
                    /\ scan_forward(stale, len, c, mode) = fwd
                    /\ scan_backward(stale, c, mode) = bwd

\* a deletion has left a letter in the cell just beyond the end of a row that
\* ends with a letter, and the forward jump from the last column stops at the
\* end of the row
C33_Witness_StaleLetterNotRead ==
    /\ status = "ok"
    /\ WithinContract
    /\ last \in {"Del", "Backspace"}
    /\ LET r == get_cursor_pos(selection).row IN
       /\ line_lens[r + 1] > 0
       /\ line_lens[r + 1] < max_line_len
       /\ IsWordChar(canvas[r * max_line_len + line_lens[r + 1]])
       /\ IsWordChar(canvas[r * max_line_len + line_lens[r + 1] + 1])
       /\ jump_word_forward(Editor, from_row_column(r, line_lens[r + 1] - 1),
                            IgnoreWhitespaces) = line_lens[r + 1]

\* C34: a new Editor has exactly one row of length 0, a caret at (0,0) and
\* sticky column 0; every state reached through handle_input, handle_click,
\* handle_drag and set_content has at least one row, and so has the result of
\* set_content on every such state.
C34_AtLeastOneRow ==
    /\ LET e0 == new(max_line_len) IN
       /\ e0.line_lens = <<0>>
       /\ e0.selection = Caret(0, 0)
       /\ e0.last_column_index = 0
    /\ last = NoCall /\ ~single_call =>
          /\ line_lens = <<0>>
          /\ selection = Caret(0, 0)
          /\ last_column_index = 0
    /\ Len(line_lens) >= 1
    /\ status = "ok" =>
          \A text \in Texts :
             LET e2 == set_content(Editor, text) IN
             e2.st = "ok" => Len(e2.line_lens) >= 1

\* Backspace has merged two rows that together fill a row, in a history that
\* never left the contract, and one row remains
C34_Witness_MergedIntoLastRow ==
    /\ status = "ok"
    /\ broken = 0
    /\ last = "Backspace"
    /\ line_lens = <<MaxLineLen>>
    /\ selection = Caret(0, 1)

NavigationKeys == {"Left", "Right", "Up", "Down", "Home", "End"}

\* C35: Left, Right, Up, Down, Home and End with every modifier combination,
\* ctrl+Char('e'), handle_click and handle_drag never modify the buffer: when
\* the call returns, the row count, every row length and every character cell
\* are those before the call.
C35_NavigationKeepsBuffer ==
    status = "ok" =>
       /\ \A key \in NavigationKeys : \A shift \in BOOLEAN, ctrl \in BOOLEAN :
             LET e2 == handle_input(Editor, key, <<>>, shift, ctrl) IN
             e2.st = "ok" =>
                /\ e2.line_lens = line_lens
                /\ e2.canvas = canvas
                /\ RowsAfter(e2) = Rows
       /\ \A shift \in BOOLEAN :
             LET e2 == handle_input(Editor, "Char", "e", shift, TRUE) IN
             e2.st = "ok" =>
                /\ e2.line_lens = line_lens
                /\ e2.canvas = canvas
                /\ RowsAfter(e2) = Rows
       /\ \A x \in 0..MaxClick, y \in 0..MaxClick :
             LET c == handle_click(Editor, x, y)
                 d == handle_drag(Editor, x, y) IN
             /\ c.st = "ok" =>
                   /\ c.line_lens = line_lens
                   /\ c.canvas = canvas
                   /\ RowsAfter(c) = Rows
             /\ d.st = "ok" =>
                   /\ d.line_lens = line_lens
                   /\ d.canvas = canvas
                   /\ RowsAfter(d) = Rows

\* a buffer of two non-empty rows on which ctrl+Char('e') selects a word, a
\* drag makes a range over both rows and shift+Home moves the cursor
C35_Witness_SelectionMovedOverText ==
    /\ status = "ok"
    /\ WithinContract
    /\ Len(line_lens) = 2
    /\ line_lens[1] > 0
    /\ line_lens[2] > 0
    /\ selection = Caret(1, line_lens[2])
    /\ handle_input(Editor, "Char", "e", FALSE, TRUE).st = "ok"
    /\ handle_input(Editor, "Char", "e", FALSE, TRUE).selection # selection
    /\ handle_drag(Editor, 0, 0).selection.end = Some(from_row_column(0, 0))
    /\ handle_input(Editor, "Home", <<>>, TRUE, FALSE).selection # selection

\* e2 has the sticky column of the current state, and Up and Down on e2 go to
\* the smaller of that column and the length of the target row
KeepsStickyColumn(e2) ==
    e2.st = "ok" =>
       /\ e2.last_column_index = last_column_index
       /\ LET cur == get_cursor_pos(e2.selection)
              up == handle_input(e2, "Up", <<>>, FALSE, FALSE)
              down == handle_input(e2, "Down", <<>>, FALSE, FALSE) IN
          /\ (up.st = "ok" /\ cur.row > 0) =>
                up.selection
                  = Caret(cur.row - 1, Min(last_column_index, e2.line_lens[cur.row]))
          /\ (down.st = "ok" /\ cur.row + 1 < Len(e2.line_lens)) =>
                down.selection
                  = Caret(cur.row + 1, Min(last_column_index, e2.line_lens[cur.row + 2]))

\* C36: Up, Down, Del, Backspace, Enter, Char, Text, handle_click and
\* handle_drag leave the sticky column unchanged, so that an Up or Down after
\* one of them goes to the smaller of the column remembered before it and the
\* length of the target row, whatever column the caret is in.
C36_StickyColumnKept ==
    status = "ok" =>
       /\ \A key \in {"Up", "Down", "Del", "Backspace", "Enter"} :
             \A shift \in BOOLEAN, ctrl \in BOOLEAN :
                KeepsStickyColumn(handle_input(Editor, key, <<>>, shift, ctrl))
       /\ \A ch \in InputChars \cup {"e"} : \A shift \in BOOLEAN, ctrl \in BOOLEAN :
             KeepsStickyColumn(handle_input(Editor, "Char", ch, shift, ctrl))
       /\ \A text \in Texts : \A shift \in BOOLEAN, ctrl \in BOOLEAN :
             KeepsStickyColumn(handle_input(Editor, "Text", text, shift, ctrl))
       /\ \A x \in 0..MaxClick, y \in 0..MaxClick :
             /\ KeepsStickyColumn(handle_click(Editor, x, y))
             /\ KeepsStickyColumn(handle_drag(Editor, x, y))

\* a letter has just been typed at the end of the second row while the sticky
\* column is 0: Up goes to column 0 of a first row that has a column 1
C36_Witness_UpAfterTyping ==
    /\ status = "ok"
    /\ WithinContract
    /\ last = "Char"
    /\ selection = Caret(1, 1)
    /\ last_column_index = 0
    /\ line_lens[1] >= 1
    /\ handle_input(Editor, "Up", <<>>, FALSE, FALSE).selection = Caret(0, 0)

IsCaretOf(e2) == e2.st = "ok" => e2.selection.end = None

\* C37: after Del, Backspace, Enter, Text and every Char other than ctrl+'e',
\* with every modifier combination and whether or not the edit was refused for
\* capacity, the selection is a caret, from a range as well as from a caret.
C37_EditLeavesCaret ==
    /\ (status = "ok" /\ last \in {"Del", "Backspace", "Enter", "Text", "Char"})
          => selection.end = None
    /\ status = "ok" =>
          /\ \A key \in {"Del", "Backspace", "Enter"} :
                \A shift \in BOOLEAN, ctrl \in BOOLEAN :
                   IsCaretOf(handle_input(Editor, key, <<>>, shift, ctrl))
          /\ \A text \in Texts : \A shift \in BOOLEAN, ctrl \in BOOLEAN :
                IsCaretOf(handle_input(Editor, "Text", text, shift, ctrl))
          /\ \A ch \in InputChars \cup {"e"} : \A shift \in BOOLEAN, ctrl \in BOOLEAN :
                ~(ch = "e" /\ ctrl) =>
                   IsCaretOf(handle_input(Editor, "Char", ch, shift, ctrl))

\* a range over two rows whose deletion by Del is refused for capacity, and
\* the selection after that Del is a caret
C37_Witness_RefusedDeletionLeavesCaret ==
    /\ status = "ok"
    /\ WithinContract
    /\ selection.end # None
    /\ get_first(selection).row < get_second(selection).row
    /\ LET e2 == handle_input(Editor, "Del", <<>>, FALSE, FALSE) IN
       /\ e2.st = "ok"
       /\ e2.capfail
       /\ e2.selection = from_pos(get_first(selection))

EnterThenBackspace(e) ==
    handle_input(handle_input(e, "Enter", <<>>, FALSE, FALSE), "Backspace", <<>>, FALSE, FALSE)

\* C38: from every reachable state whose selection is a caret, Enter followed
\* by Backspace (no modifiers) returns and restores the row count, every row's
\* length and characters and the caret position; the merge done by Backspace
\* is not refused for capacity.
C38_EnterBackspaceIdentity ==
    (status = "ok" /\ selection.end = None) =>
       LET e2 == EnterThenBackspace(Editor) IN
       /\ e2.st = "ok"
       /\ ~e2.capfail
       /\ e2.line_lens = line_lens
       /\ RowsAfter(e2) = Rows
       /\ e2.selection = selection

\* C39: Text(s) on a range selection deletes nothing: the visible characters
\* of the document afterwards are those before with the characters of s other
\* than '\r' and '\n' inserted at the cursor position (the floating end of the
\* selection), and the selection becomes a caret right after the last
\* inserted character.
C39_TextKeepsSelectedText ==
    (status = "ok" /\ is_range(selection))
        => \A str \in Texts :
              LET e2 == handle_input(Editor, "Text", str, FALSE, FALSE)
                  cur == get_cursor_pos(selection)
                  ins == Without(str, {"\r", "\n"})
                  off == CharsBefore(line_lens, cur)
                  flat == Flat(Rows)
                  after == Flat(RowsAfter(e2)) IN
              /\ e2.st = "ok"
              /\ after = SubSeq(flat, 1, off) \o ins \o SubSeq(flat, off + 1, Len(flat))
              /\ ~is_range(e2.selection)
              /\ e2.selection.start.row < Len(e2.line_lens)
              /\ CharsBefore(e2.line_lens, e2.selection.start) = off + Len(ins)

\* the end of the last row
LastPos(lens) == from_row_column(Len(lens) - 1, lens[Len(lens)])

\* the editor value after n presses of key without shift
RECURSIVE Pressed(_, _, _, _)
Pressed(e, key, ctrl, n) ==
    IF n = 0 THEN e
    ELSE Pressed(handle_input(e, key, <<>>, FALSE, ctrl), key, ctrl, n - 1)

\* C40: from every reachable state with a caret, for Right and Ctrl+Right: a
\* press returns and leaves the buffer unchanged; when it does not start at the
\* end of the last row it puts the caret at a strictly later document
\* position, and when it does it leaves the caret there; repeated presses (one
\* more than the document has positions behind (0,0)) put the caret at the end
\* of the last row, and a further press changes neither the buffer nor the
\* selection nor the sticky column. Symmetrically for Left and Ctrl+Left with
\* strictly earlier positions and (0,0).
C40_HorizontalProgress ==
    (status = "ok" /\ ~is_range(selection)) =>
       \A ctrl \in BOOLEAN :
          LET right == handle_input(Editor, "Right", <<>>, FALSE, ctrl)
              left == handle_input(Editor, "Left", <<>>, FALSE, ctrl)
              n == Offset(line_lens, LastPos(line_lens)) + 1
              far_right == Pressed(Editor, "Right", ctrl, n)
              far_left == Pressed(Editor, "Left", ctrl, n) IN
          /\ right.st = "ok" /\ left.st = "ok"
          /\ right.canvas = canvas /\ right.line_lens = line_lens
          /\ left.canvas = canvas /\ left.line_lens = line_lens
          /\ ~is_range(right.selection) /\ ~is_range(left.selection)
          /\ IF CaretPos # LastPos(line_lens)
             THEN DocLess(CaretPos, right.selection.start)
             ELSE right.selection = selection
          /\ IF CaretPos # from_row_column(0, 0)
             THEN DocLess(left.selection.start, CaretPos)
             ELSE left.selection = selection
          /\ far_right.st = "ok"
          /\ far_right.selection = from_pos(LastPos(line_lens))
          /\ SameEditor(handle_input(far_right, "Right", <<>>, FALSE, ctrl), far_right)
          /\ far_left.st = "ok"
          /\ far_left.selection = from_pos(from_row_column(0, 0))
          /\ SameEditor(handle_input(far_left, "Left", <<>>, FALSE, ctrl), far_left)

====
